---- MODULE Spec2Model ----
(***************************************************************************)
(* Model of the pivot query wrapper of msticpy                             *)
(* (msticpy/datamodel/pivot_data_queries.py): the registry                 *)
(* `PivotQueryFunctions`, the binder `add_queries_to_entities`, the outer  *)
(* wrapper `wrapped_query_func`, the inner executor `call_data_query` and  *)
(* the helpers it calls; of the main flow of tools/config2kv.py; and of    *)
(* the workspace operations of msticpy/data/azure_sentinel.py.             *)
(* Each part has its own specification: Spec (wrapped calls), SpecBind     *)
(* (registry and binder), SpecLookup (registry lookups), SpecKv            *)
(* (config2kv), SpecAzs (Azure Sentinel).                                  *)
(*                                                                         *)
(* Python values are records [t, v]: t is the Python type, v the payload   *)
(* as a sequence of strings (a str or a time holds one element, a list     *)
(* or a pandas Series its elements, None holds none).  A keyword           *)
(* dictionary is a function from keyword names to such values.             *)
(* A DataFrame is a record [present, index, rows]; every source table has  *)
(* the columns `Columns`.                                                  *)
(***************************************************************************)
EXTENDS Integers, Sequences, FiniteSets, TLC

\* ------------------------------------------------------------------ bounds
MaxRows == 2      \* rows of a source table
MaxLen == 3       \* elements of a list argument
MaxResRows == 1   \* rows one underlying query call returns
MaxBinds == 2     \* binding runs (add_queries_to_entities) in one behaviour

\* ------------------------------------------------------------ Python values
Str(s) == [t |-> "str", v |-> <<s>>]
List(q) == [t |-> "list", v |-> q]
Series(q) == [t |-> "series", v |-> q]
Time(s) == [t |-> "time", v |-> <<s>>]
NoneVal == [t |-> "none", v |-> <<>>]
Absent == [t |-> "absent", v |-> <<>>]

\* bool(x): None, "" and an empty list are falsy
Truthy(x) == x.t \notin {"none", "absent"} /\ x.v # <<>> /\ x.v # <<"">>

\* isinstance(x, str)
IsStr(x) == x.t = "str"

\* isinstance(x, abc.Iterable) and not a str
IsIterable(x) == x.t \in {"list", "series"}

Restrict(f, S) == [k \in S |-> f[k]]

\* dict.pop(key, None) / dict.get(key): the value, None when the key is absent
Get(d, k) == IF k \in DOMAIN d THEN d[k] ELSE NoneVal

Pop(d, S) == Restrict(d, DOMAIN d \ S)

\* {**a, **b} for dictionaries with disjoint keys
Merge2(a, b) == [k \in DOMAIN a \cup DOMAIN b |-> IF k \in DOMAIN a THEN a[k] ELSE b[k]]

EmptyDict == Restrict([k \in {"x"} |-> NoneVal], {})

Min(S) == CHOOSE m \in S : \A x \in S : m <= x

\* _DEF_IGNORE_PARAM
_DEF_IGNORE_PARAM == {"start", "end"}

\* --------------------------------------------------------------- DataFrames
Columns == {"hcol", "acol"}

NoData == [present |-> FALSE, index |-> <<>>, rows |-> <<>>]

\* the values of row i: the i-th host and the i-th account
CellValue(col, i) ==
    IF col = "hcol" THEN <<"h1", "h2", "h3", "h4">>[i] ELSE <<"a1", "a2", "a3", "a4">>[i]

Table(n, idx) ==
    [present |-> TRUE, index |-> idx,
     rows |-> [i \in 1..n |-> [c \in Columns |-> CellValue(c, i)]]]

\* the source tables: a default RangeIndex, or an index with one repeated label
Tables ==
    {Table(n, [i \in 1..n |-> i - 1]) : n \in 0..MaxRows}
    \cup {Table(n, [i \in 1..n |-> 0]) : n \in 2..MaxRows}

\* ------------------------------------------------ query provider (input)
SeqToSet(s) == {s[i] : i \in DOMAIN s}

\* one entry of q_source.params: the parameter and its attributes; `default`
\* is "None" when the attributes have no "default" key (what dict.get gives,
\* as an f-string prints it)
Param(n, t) == [name |-> n, type |-> t, default |-> "None"]

TableParam(d) == [name |-> "table", type |-> "str", default |-> d]

\* the type of a parameter whose attributes have no "type" key: p_attrs["type"]
\* raises KeyError
NoType == "<no type>"

\* the query sources of the providers, each with its data family, its name,
\* its params in dictionary order and the keys of its required_params
QuerySources ==
    << [family |-> "WindowsSecurity", name |-> "list_logons",
        params |-> <<Param("start", "datetime"), Param("end", "datetime"),
                     Param("host_name", "str"), Param("account_name", "str")>>,
        required |-> <<"start", "end", "host_name">>],
       [family |-> "WindowsSecurity", name |-> "list_events",
        params |-> <<TableParam("SecurityEvent"), Param("start", "datetime"),
                     Param("end", "datetime"), Param("host_name", "list"),
                     Param("account_name", "list")>>,
        required |-> <<"start", "end">>],
       [family |-> "LinuxSyslog", name |-> "list_logons",
        params |-> <<Param("start", "datetime"), Param("host_name", "list"),
                     Param("account_name", "str")>>,
        required |-> <<"start", "account_name">>],
       [family |-> "LinuxSyslog", name |-> "get_host",
        params |-> <<Param("table", "str"), Param("host_name", "str"),
                     Param("proc_op", "str"), Param("logon_session_id", "str")>>,
        required |-> <<"host_name">>],
       [family |-> "WindowsSecurity", name |-> "all_events",
        params |-> <<>>,
        required |-> <<>>],
       [family |-> "LinuxSyslog", name |-> "search",
        params |-> <<Param("query_term", "str"), Param("proc_op", "str"),
                     Param("end", "datetime")>>,
        required |-> <<"query_term", "end">>],
       [family |-> "LinuxSyslog", name |-> "bad_query",
        params |-> <<Param("host_name", "str"), Param("ip_address", NoType),
                     Param("start", "datetime")>>,
        required |-> <<"host_name">>] >>

\* a provider: its environment name and its query sources in the order
\* query_store.data_families lists them
Provider(env_name, ixs) ==
    [environment |-> env_name, queries |-> [i \in DOMAIN ixs |-> QuerySources[ixs[i]]]]

Providers ==
    { Provider("LocalData", <<5, 6>>),
      Provider("AzureSentinel", <<1, 3>>),
      Provider("LocalData", <<1, 2, 4, 6>>),
      Provider("LocalData", <<1, 7, 3>>) }

\* ignore_reqd as a caller may give it
IgnoreReqds == {NoneVal, List(<<>>), List(<<"end", "host_name">>)}

\* --------------------------------------------- PivotQueryFunctions.__init__
ParamAttrs(type, query, family, required) ==
    [type |-> type, query |-> query, family |-> family, required |-> required]

\* f"{family}.{src_name}"
QueryKey(family, name) == <<family, name>>

DeclaredNames(q_source) == {q_source.params[i].name : i \in DOMAIN q_source.params}

PAttrs(q_source, param) ==
    LET i == CHOOSE j \in DOMAIN q_source.params : q_source.params[j].name = param
    IN q_source.params[i]

\* faulty variant: nothing is taken out of the required parameters
IgnoreNothing(ignore_reqd) == {}

\* ignore_params = set(ignore_reqd) if ignore_reqd else _DEF_IGNORE_PARAM
IgnoreParams(ignore_reqd) ==
    IF Truthy(ignore_reqd) THEN SeqToSet(ignore_reqd.v) ELSE _DEF_IGNORE_PARAM

\* faulty variant: the ignored names stay among the required ones
ReqdParamsAll(q_source, ignore_params) == SeqToSet(q_source.required)

\* reqd_params = set(q_source.required_params.keys()) - ignore_params
ReqdParams(q_source, ignore_params) == SeqToSet(q_source.required) \ ignore_params

\* the records appended to param_usage[param], in the order of the queries
RECURSIVE ParamUsage(_, _, _)
ParamUsage(prov, ignore_params, param) ==
    IF prov = <<>> THEN <<>>
    ELSE LET q_source == Head(prov)
         IN (IF param \in DeclaredNames(q_source)
             THEN <<ParamAttrs(PAttrs(q_source, param).type, q_source.name,
                               q_source.family,
                               param \in ReqdParams(q_source, ignore_params))>>
             ELSE <<>>)
            \o ParamUsage(Tail(prov), ignore_params, param)

\* q_source.params.get("table")
TableOf(q_source) ==
    IF "table" \in DeclaredNames(q_source)
    THEN [isdict |-> TRUE, default |-> PAttrs(q_source, "table").default]
    ELSE [isdict |-> FALSE, default |-> "None"]

QueryParams(q_source, ignore_params) ==
    [all |-> [i \in DOMAIN q_source.params |-> q_source.params[i].name],
     required |-> ReqdParams(q_source, ignore_params),
     full_required |-> q_source.required,
     param_attrs |-> [p \in DeclaredNames(q_source) |->
                         ParamAttrs(PAttrs(q_source, p).type, q_source.name,
                                    q_source.family,
                                    p \in ReqdParams(q_source, ignore_params))],
     table |-> TableOf(q_source)]

\* the places of the parameters of q_source whose attributes have no type
BadParams(q_source) == {j \in DOMAIN q_source.params : q_source.params[j].type = NoType}

\* the query source with the parameters the inner loop gets through
Reached(q_source) ==
    IF BadParams(q_source) = {} THEN q_source
    ELSE [q_source EXCEPT !.params = SubSeq(q_source.params, 1, Min(BadParams(q_source)) - 1)]

\* the registry a construction leaves, and the exception it ends with: the
\* loops stop at the first parameter without a type, after
\* self.param_usage[param] has made the (defaultdict) entry of that parameter
PivotQueryFunctions(query_provider, ignore_reqd) ==
    LET ignore_params == IgnoreParams(ignore_reqd)
        all_sources == query_provider.queries
        bad == {i \in DOMAIN all_sources : BadParams(all_sources[i]) # {}}
        done == IF bad = {} THEN all_sources ELSE SubSeq(all_sources, 1, Min(bad) - 1)
        sources == IF bad = {} THEN done ELSE Append(done, Reached(all_sources[Min(bad)]))
        touched == IF bad = {} THEN {}
                   ELSE LET q == all_sources[Min(bad)]
                        IN {q.params[Min(BadParams(q))].name}
        declared == UNION {DeclaredNames(sources[i]) : i \in DOMAIN sources} \cup touched
        keys == {QueryKey(done[i].family, done[i].name) : i \in DOMAIN done}
    IN [param_usage |-> [p \in declared |-> ParamUsage(sources, ignore_params, p)],
        query_params |->
            [k \in keys |->
                QueryParams(CHOOSE q \in SeqToSet(done) :
                                QueryKey(q.family, q.name) = k, ignore_params)],
        exc |-> IF bad = {} THEN "none" ELSE "KeyError"]

\* ------------------------------------------------------ registry lookups
\* every lookup gives the value returned and the param_usage it leaves
\* faulty variant: param_usage[param_name] on the defaultdict, which adds the key
get_param_attrs_indexing(reg, param_name) ==
    [ret |-> IF param_name \in DOMAIN reg.param_usage
             THEN reg.param_usage[param_name] ELSE <<>>,
     exc |-> "none",
     param_usage |-> [p \in DOMAIN reg.param_usage \cup {param_name} |->
                         IF p \in DOMAIN reg.param_usage THEN reg.param_usage[p]
                         ELSE <<>>]]

\* self.param_usage.get(param_name, [])
get_param_attrs(reg, param_name) ==
    [ret |-> IF param_name \in DOMAIN reg.param_usage
             THEN reg.param_usage[param_name] ELSE <<>>,
     exc |-> "none",
     param_usage |-> reg.param_usage]

\* (query_name, query_family, getattr(provider, "family.query")) per record
get_queries_for_param(reg, param) ==
    LET param_usage == IF param \in DOMAIN reg.param_usage
                       THEN reg.param_usage[param] ELSE <<>>
    IN [ret |-> [i \in DOMAIN param_usage |->
                    [name |-> param_usage[i].query, family |-> param_usage[i].family,
                     func |-> QueryKey(param_usage[i].family, param_usage[i].query)]],
        exc |-> "none",
        param_usage |-> reg.param_usage]

get_queries_and_types_for_param(reg, param) ==
    LET param_usage == IF param \in DOMAIN reg.param_usage
                       THEN reg.param_usage[param] ELSE <<>>
    IN [ret |-> [i \in DOMAIN param_usage |->
                    [name |-> param_usage[i].query, family |-> param_usage[i].family,
                     type |-> param_usage[i].type,
                     func |-> QueryKey(param_usage[i].family, param_usage[i].query),
                     func_name |-> QueryKey(param_usage[i].family, param_usage[i].query)]],
        exc |-> "none",
        param_usage |-> reg.param_usage]

\* self.query_params.get(query_func_name): an Optional, here the empty tuple
\* for None and the 1-tuple of the summary otherwise
get_params(reg, query_func_name) ==
    [ret |-> IF query_func_name \in DOMAIN reg.query_params
             THEN <<reg.query_params[query_func_name]>> ELSE <<>>,
     exc |-> "none",
     param_usage |-> reg.param_usage]

\* ------------------------------------------------------- PARAM_ENTITY_MAP
Ent(cls, attr) == [cls |-> cls, attr |-> attr]

PARAM_ENTITY_MAP ==
    << [param |-> "account_name", ents |-> <<Ent("Account", "Name")>>],
       [param |-> "host_name", ents |-> <<Ent("Host", "fqdn")>>],
       [param |-> "process_name", ents |-> <<Ent("Process", "ProcessFilePath")>>],
       [param |-> "source_ip_list", ents |-> <<Ent("IpAddress", "Address")>>],
       [param |-> "ip_address_list", ents |-> <<Ent("IpAddress", "Address")>>],
       [param |-> "ip_address", ents |-> <<Ent("IpAddress", "Address")>>],
       [param |-> "user", ents |-> <<Ent("Account", "Name")>>],
       [param |-> "observables",
        ents |-> <<Ent("IpAddress", "Address"), Ent("Dns", "DomainName"),
                   Ent("File", "file_hash"), Ent("Url", "Url")>>],
       [param |-> "logon_session_id",
        ents |-> <<Ent("Process", "LogonSession"), Ent("HostLogonSession", "SessionId"),
                   Ent("Account", "LogonId")>>],
       [param |-> "proc_op", ents |-> <<>>],
       [param |-> "process_id", ents |-> <<Ent("Process", "ProcessId")>>],
       [param |-> "commandline", ents |-> <<Ent("Process", "CommandLine")>>],
       [param |-> "url", ents |-> <<Ent("Url", "Url")>>],
       [param |-> "file_hash", ents |-> <<Ent("File", "file_hash")>>] >>

EntityClasses ==
    {"Account", "Host", "Process", "IpAddress", "Dns", "File", "Url", "HostLogonSession"}

\* the container names add_queries_to_entities is called with
ContainerNames == {"AzureSentinel", "LocalData"}

\* ------------------------------------------------- add_queries_to_entities
\* the entity classes: for each its attached containers by name, a container
\* being [id, funcs]; `run` numbers the binding runs, and a container's id is
\* the run that created the object
NoContainers == [classes |-> [c \in EntityClasses |-> EmptyDict], run |-> 0]

\* d[k] = v
Put(d, k, v) == [x \in DOMAIN d \cup {k} |-> IF x = k THEN v ELSE d[x]]

\* faulty variant: the first query is paired with the Url class as well
EntityFuncsEveryClass(entity_list, param_funcs) ==
    [k \in 1..(Len(entity_list) * Len(param_funcs) + 1) |->
        LET f == param_funcs[((k - 1) % Len(param_funcs)) + 1]
        IN [cls |-> IF k > Len(entity_list) * Len(param_funcs) THEN "Url"
                    ELSE entity_list[((k - 1) \div Len(param_funcs)) + 1].cls,
            name |-> f.name, family |-> f.family, func |-> f.func]]

\* itertools.product(entity_list, param_funcs): the entity varies slowest
EntityFuncs(entity_list, param_funcs) ==
    [k \in 1..(Len(entity_list) * Len(param_funcs)) |->
        LET f == param_funcs[((k - 1) % Len(param_funcs)) + 1]
        IN [cls |-> entity_list[((k - 1) \div Len(param_funcs)) + 1].cls,
            name |-> f.name, family |-> f.family, func |-> f.func]]

\* attr_map: the mapped parameters the query declares whose candidate list
\* names entity_cls, each with the attribute of that candidate
AttrMap(all, entity_cls) ==
    LET mapped == {i \in DOMAIN PARAM_ENTITY_MAP :
                      /\ PARAM_ENTITY_MAP[i].param \in SeqToSet(all)
                      /\ \E j \in DOMAIN PARAM_ENTITY_MAP[i].ents :
                            PARAM_ENTITY_MAP[i].ents[j].cls = entity_cls}
    IN [p \in {PARAM_ENTITY_MAP[i].param : i \in mapped} |->
           LET e == (CHOOSE i \in mapped : PARAM_ENTITY_MAP[i].param = p)
               ents == PARAM_ENTITY_MAP[e].ents
               j == CHOOSE n \in DOMAIN ents :
                       /\ ents[n].cls = entity_cls
                       /\ \A m \in DOMAIN ents : ents[m].cls = entity_cls => m <= n
           IN ents[j].attr]

\* a name as the sequence of its "_"-separated parts, so that joining two
\* names with "_" is the concatenation of their parts
Segments(s) ==
    IF s = "list_logons" THEN <<"list", "logons">>
    ELSE IF s = "list_events" THEN <<"list", "events">>
    ELSE IF s = "get_host" THEN <<"get", "host">>
    ELSE IF s = "all_events" THEN <<"all", "events">>
    ELSE <<s>>

\* faulty variant: the data family is part of the name
FuncNameWithFamily(func_params, name) ==
    LET p == CHOOSE x \in DOMAIN func_params.param_attrs : TRUE
    IN <<func_params.param_attrs[p].family>>
       \o (IF func_params.table.isdict
           THEN Segments(func_params.table.default) \o Segments(name)
           ELSE Segments(name))

\* func_name: f"{func_params.table.get('default')}_{name}" when the table
\* attribute is a dict, else name
FuncName(func_params, name) ==
    IF func_params.table.isdict
    THEN Segments(func_params.table.default) \o Segments(name)
    ELSE Segments(name)

\* faulty variant: a new QueryContainer is made for every attachment
QueryContainerAlwaysNew(st, entity_cls, container) ==
    [st EXCEPT !.classes[entity_cls] =
        Put(st.classes[entity_cls], container, [id |-> st.run, funcs |-> EmptyDict])]

\* getattr(entity_cls, container, None), created and set when there is none
GetQueryContainer(st, entity_cls, container) ==
    IF container \in DOMAIN st.classes[entity_cls] THEN st
    ELSE [st EXCEPT !.classes[entity_cls] =
            Put(st.classes[entity_cls], container, [id |-> st.run, funcs |-> EmptyDict])]

\* the body of the loop for one (entity class, query) combination
AttachOne(prov_qry_funcs, container, st, w) ==
    LET func_params == get_params(prov_qry_funcs, QueryKey(w.family, w.name)).ret
    IN IF func_params = <<>> \/ Len(func_params[1].all) = 0 THEN st
       ELSE LET cls_func == [query |-> w.func,
                             func_params |-> func_params[1].param_attrs,
                             param_attrib_map |-> AttrMap(func_params[1].all, w.cls)]
                st1 == GetQueryContainer(st, w.cls, container)
                query_container == st1.classes[w.cls][container]
            IN [st1 EXCEPT !.classes[w.cls] =
                   Put(st1.classes[w.cls], container,
                       [query_container EXCEPT !.funcs =
                           Put(query_container.funcs,
                               FuncName(func_params[1], w.name), cls_func)])]

RECURSIVE AttachAll(_, _, _, _)
AttachAll(prov_qry_funcs, container, st, work) ==
    IF work = <<>> THEN st
    ELSE AttachAll(prov_qry_funcs, container,
                   AttachOne(prov_qry_funcs, container, st, Head(work)), Tail(work))

\* the (entity class, query) combinations in the order the loops visit them
RECURSIVE BindWork(_, _)
BindWork(prov_qry_funcs, i) ==
    IF i > Len(PARAM_ENTITY_MAP) THEN <<>>
    ELSE LET entity_list == PARAM_ENTITY_MAP[i].ents
             param_funcs == get_queries_for_param(prov_qry_funcs,
                                                  PARAM_ENTITY_MAP[i].param).ret
         IN (IF entity_list = <<>> \/ param_funcs = <<>> THEN <<>>
             ELSE EntityFuncs(entity_list, param_funcs))
            \o BindWork(prov_qry_funcs, i + 1)

add_queries_to_entities(prov_qry_funcs, container, st) ==
    AttachAll(prov_qry_funcs, container, [st EXCEPT !.run = st.run + 1],
              BindWork(prov_qry_funcs, 1))

\* the wrapped functions a binding attaches to entity_cls
Attached(st, entity_cls) ==
    UNION {{st.classes[entity_cls][c].funcs[n] :
              n \in DOMAIN st.classes[entity_cls][c].funcs} :
           c \in DOMAIN st.classes[entity_cls]}

\* ------------------------------------------------------------------- state
VARIABLES
    pc,                \* "unbound", "bound", "idle", "exec", "done"
    mode,              \* branch of the executor: "none", "single", "rows", "values"
    func_params,       \* closure: declared parameter -> declared type
    param_attrib_map,  \* closure: parameter -> entity attribute name
    timespan,          \* what the timespan accessor returns now
    ts_reads,          \* accessor invocations made by the last operation
    entity,            \* the entity instance: attribute name -> value
    inp,               \* the arguments of the wrapped call being served
    func_kwargs,       \* plain keyword arguments left for the query function
    iter_params,       \* df_iter_params / var_iter_params
    fixed_params,      \* list_params / simple_params
    join,              \* (join_type, left_on, right_on) of _get_join_params
    calls,             \* keyword arguments of each underlying call, in order
    row_results,       \* result table of each underlying call, in order
    warns,             \* warnings issued by the wrapped call
    result,            \* the table returned to the caller
    exc,               \* the exception the wrapped call ended with, or "none"
    \* registry and binder
    current,           \* PivotQueryFunctions.current: the registry last constructed
    last_init,         \* the constructor call started last: arguments and outcome
    entity_classes,    \* the containers attached to the entity classes
    bound_first,       \* the registry and container name of the first binding run
    bound_same,        \* every binding run so far repeated the first
    lookup,            \* the last registry lookup: operation, argument, value returned
    \* config2kv
    kv_pc,             \* position in the main flow
    kv_args,           \* the parsed command line
    kv_world,          \* the vault, the settings file and the output file, outside
    kv_uri,            \* vault_uri of _add_secrets_to_vault
    kv_log,            \* prompts shown and client calls made, in order
    \* AzureSentinel
    azs_config,        \* self.config: the workspace settings once loaded
    azs_file,          \* what WorkspaceConfig() finds in the settings file
    azs_call,          \* the operation last called and its arguments
    azs_requests,      \* the HTTP requests it sent, in order
    azs_exc            \* the exception it ended with, or "none"

pivot_vars == <<pc, mode, func_params, param_attrib_map, timespan, ts_reads, entity, inp,
                func_kwargs, iter_params, fixed_params, join, calls, row_results,
                warns, result, exc>>

bind_vars == <<current, last_init, entity_classes, bound_first, bound_same, lookup>>

kv_vars == <<kv_pc, kv_args, kv_world, kv_uri, kv_log>>

azs_vars == <<azs_config, azs_file, azs_call, azs_requests, azs_exc>>

vars == <<pivot_vars, bind_vars, kv_vars, azs_vars>>

env == <<func_params, param_attrib_map, timespan, entity>>

\* ------------------------------------------------------- bind-time inputs
\* (func_params, param_attrib_map) pairs handed to _param_and_call_wrapper:
\* those of the wrapped functions the binder attaches to Host and to Account
\* for some provider (of the ParamAttrs the executor reads the type only)
BindChoices ==
    { [fp |-> [p \in DOMAIN f.func_params |-> f.func_params[p].type],
       am |-> f.param_attrib_map] :
        f \in UNION { Attached(add_queries_to_entities(PivotQueryFunctions(p, NoneVal),
                                                       p.environment, NoContainers), cls) :
                        p \in Providers, cls \in {"Host", "Account"} } }

Timespans == {1, 2}

\* TimeSpan.start / TimeSpan.end of the accessor's value
TsStart(ts) == Time(IF ts = 1 THEN "s1" ELSE "s2")

TsEnd(ts) == Time(IF ts = 1 THEN "e1" ELSE "e2")

\* the states of the entity instance: with both mapped attributes, with
\* neither, with a fqdn that happens to spell a column name, and with one
\* attribute holding "host1"
InitEntity == [fqdn |-> Str("h1"), Name |-> Str("a1")]

EntityStates ==
    { InitEntity,
      EmptyDict,
      [fqdn |-> Str("hcol")],
      [fqdn |-> Str("host1")],
      [Name |-> Str("host1")] }

NoResult == [cols |-> {}, rows |-> <<>>]

NoJoin == [type |-> NoneVal, left_on |-> NoneVal, right_on |-> NoneVal]

NoInput == [ent |-> FALSE, kw |-> EmptyDict, data |-> NoData]

\* ------------------------------------------------- the underlying query
\* The provider's query function is an external collaborator: it returns a
\* table with the column "rcol", whose j-th row echoes the host_name it was
\* asked about ("none" when there is none).
EchoKey(kw, j) ==
    IF "host_name" \in DOMAIN kw /\ kw["host_name"].v # <<>>
    THEN LET q == kw["host_name"].v IN q[((j - 1) % Len(q)) + 1]
    ELSE "none"

QueryResult(kw, idx, k) ==
    [cols |-> {"rcol"},
     rows |-> [j \in 1..k |->
                 [src |-> 0, call |-> idx, n |-> j, rcol |-> EchoKey(kw, j), sri |-> -1]]]

\* ------------------------------------------------------ DataFrame helpers
\* row_res_def["src_row_index"] = row_index
TagRowIndex(df, label) ==
    [cols |-> df.cols \cup {"src_row_index"},
     rows |-> [j \in DOMAIN df.rows |-> [df.rows[j] EXCEPT !.sri = label]]]

\* DataFrame.drop(columns="src_row_index", errors="ignore")
DropRowIndex(df) ==
    [cols |-> df.cols \ {"src_row_index"},
     rows |-> [j \in DOMAIN df.rows |-> [df.rows[j] EXCEPT !.sri = -1]]]

RECURSIVE ConcatRows(_)
ConcatRows(tables) ==
    IF tables = <<>> THEN <<>> ELSE Head(tables).rows \o ConcatRows(Tail(tables))

\* pd.concat(row_results, ignore_index=True), for a non-empty list
Concat(tables) ==
    [cols |-> UNION {tables[i].cols : i \in DOMAIN tables}, rows |-> ConcatRows(tables)]

\* the rows of `df` that match source row i (m[i][j]: source row i matches row j)
RECURSIVE Matches(_, _, _, _)
Matches(df, m, i, j) ==
    IF j > Len(df.rows) THEN <<>>
    ELSE (IF m[i][j] THEN <<[df.rows[j] EXCEPT !.src = i]>> ELSE <<>>)
         \o Matches(df, m, i, j + 1)

NaNRow(i) == [src |-> i, call |-> 0, n |-> 0, rcol |-> "NaN", sri |-> -1]

RECURSIVE MergeRows(_, _, _, _, _)
MergeRows(n, df, how, m, i) ==
    IF i > n THEN <<>>
    ELSE LET ms == Matches(df, m, i, 1)
         IN (IF ms = <<>> /\ how = "left" THEN <<NaNRow(i)>> ELSE ms)
            \o MergeRows(n, df, how, m, i + 1)

\* src_data.merge(result_df, ..., how=how) for how in {"left", "inner"}: the
\* rows of the source table in order, each with its matching result rows
MergeOn(src_data, df, how, m) ==
    [cols |-> Columns \cup df.cols,
     rows |-> MergeRows(Len(src_data.rows), df, how, m, 1)]

\* merge(left_on=left_on, right_on=right_on): equality of the key columns
KeyMatch(src_data, df, left_on) ==
    [i \in DOMAIN src_data.rows |->
        [j \in DOMAIN df.rows |-> src_data.rows[i][left_on] = df.rows[j].rcol]]

\* merge(left_index=True, right_on="src_row_index")
IndexMatch(src_data, df) ==
    [i \in DOMAIN src_data.rows |->
        [j \in DOMAIN df.rows |-> src_data.index[i] = df.rows[j].sri]]

\* ---------------------------------------------------- wrapped_query_func
\* faulty variant: the time range is read once, when the function is bound
TimeParamsAtBind(kw, ts) ==
    [k \in _DEF_IGNORE_PARAM |->
        IF k \in DOMAIN kw THEN kw[k]
        ELSE IF k = "start" THEN TsStart(1) ELSE TsEnd(1)]

\* time_params: kwargs.pop("start", get_timespan().start), and "end" alike
TimeParams(kw, ts) ==
    [k \in _DEF_IGNORE_PARAM |->
        IF k \in DOMAIN kw THEN kw[k]
        ELSE IF k = "start" THEN TsStart(ts) ELSE TsEnd(ts)]

\* faulty variant: the attributes are those the entity had at bind time
ParamDictAtBind(e, am) ==
    [p \in {q \in DOMAIN am : am[q] \in DOMAIN InitEntity} |-> InitEntity[am[p]]]

\* param_dict: the mapped attributes the entity has, read now
ParamDict(e, am) ==
    [p \in {q \in DOMAIN am : am[q] \in DOMAIN e} |-> e[am[p]]]

\* f(**a, **b): a keyword given twice is a TypeError
DuplicateKeyword(a, b) == DOMAIN a \cap DOMAIN b # {}

\* faulty variant: the entity's attributes are never read
wrapped_query_func_no_entity(ent, kw, e, am, ts) ==
    [exc |-> "none", kwargs |-> Merge2(TimeParams(kw, ts), Pop(kw, _DEF_IGNORE_PARAM))]

\* the keyword arguments exec_query_func is called with, or the exception
wrapped_query_func(ent, kw, e, am, ts) ==
    LET time_params == TimeParams(kw, ts)
        kwargs == Pop(kw, _DEF_IGNORE_PARAM)
        param_dict == ParamDict(e, am)
    IN IF ent
       THEN IF DuplicateKeyword(param_dict, kwargs)
            THEN [exc |-> "TypeError", kwargs |-> EmptyDict]
            ELSE [exc |-> "none",
                  kwargs |-> Merge2(Merge2(param_dict, time_params), kwargs)]
       ELSE [exc |-> "none", kwargs |-> Merge2(time_params, kwargs)]

\* ------------------------------------------------------- _get_join_params
\* col_keys = list(list(func_kwargs.keys()) - {"start", "end", "data"}):
\* a list minus a set is a TypeError, whatever the keys are
ColKeys(fk) == [exc |-> "TypeError", keys |-> {}]

\* faulty variant: left_on and right_on are taken out whether or not join is given
_get_join_params_pop_all(fk) ==
    LET join_type == Get(fk, "join")
        given_left == Get(fk, "left_on")
        right_on == Get(fk, "right_on")
        rest == Pop(fk, {"join", "left_on", "right_on"})
        col_keys == ColKeys(rest)
    IN IF ~Truthy(join_type)
       THEN [exc |-> "none", join |-> NoJoin, kw |-> rest, warns |-> {}]
       ELSE IF ~Truthy(given_left) /\ col_keys.exc # "none"
       THEN [exc |-> col_keys.exc, join |-> NoJoin, kw |-> rest, warns |-> {}]
       ELSE [exc |-> "none",
             join |-> [type |-> join_type, left_on |-> given_left, right_on |-> right_on],
             kw |-> rest,
             warns |-> IF ~Truthy(right_on) THEN {"no_right_on"} ELSE {}]

\* faulty variant: left_on without right_on is refused
_get_join_params_strict(fk) ==
    LET join_type == Get(fk, "join")
        given_left == Get(fk, "left_on")
        right_on == Get(fk, "right_on")
        rest == Pop(fk, {"join", "left_on", "right_on"})
    IN IF ~Truthy(join_type)
       THEN [exc |-> "none", join |-> NoJoin, kw |-> Pop(fk, {"join"}), warns |-> {}]
       ELSE IF ~Truthy(given_left) \/ ~Truthy(right_on)
       THEN [exc |-> "TypeError", join |-> NoJoin, kw |-> rest, warns |-> {}]
       ELSE [exc |-> "none",
             join |-> [type |-> join_type, left_on |-> given_left, right_on |-> right_on],
             kw |-> rest, warns |-> {}]

_get_join_params(fk) ==
    LET join_type == Get(fk, "join")
        given_left == Get(fk, "left_on")
        right_on == Get(fk, "right_on")
        rest == Pop(fk, {"join", "left_on", "right_on"})
        col_keys == ColKeys(rest)
        left_on == IF ~Truthy(given_left) /\ Cardinality(col_keys.keys) = 1
                   THEN rest[CHOOSE k \in col_keys.keys : TRUE]
                   ELSE given_left
    IN IF ~Truthy(join_type)
       THEN [exc |-> "none", join |-> NoJoin, kw |-> Pop(fk, {"join"}), warns |-> {}]
       ELSE IF ~Truthy(given_left) /\ col_keys.exc # "none"
       THEN [exc |-> col_keys.exc, join |-> NoJoin, kw |-> rest, warns |-> {}]
       ELSE [exc |-> "none",
             join |-> [type |-> join_type, left_on |-> left_on, right_on |-> right_on],
             kw |-> rest,
             warns |-> (IF Truthy(given_left) /\ ~Truthy(right_on)
                        THEN {"no_right_on"} ELSE {})
                       \cup (IF Truthy(right_on) /\ ~Truthy(left_on)
                             THEN {"no_left_on"} ELSE {})]

\* ------------------------------------------- _check_df_params_require_iter
\* the keywords used as column specifications
ColumnBound(fp, fk, parent) ==
    {k \in DOMAIN parent \ _DEF_IGNORE_PARAM :
        /\ IsStr(parent[k]) /\ parent[k].v[1] \in Columns
        /\ IsStr(Get(fk, k))
        /\ k \in DOMAIN fp}

\* list(src_df[col_name].values)
ColumnValues(src_df, col) == List([i \in DOMAIN src_df.rows |-> src_df.rows[i][col]])

_check_df_params_require_iter(fp, src_df, fk, parent) ==
    LET bound == ColumnBound(fp, fk, parent)
    IN [iter |-> [k \in bound |-> fk[k]],
        list |-> [k \in {b \in bound : fp[b] = "list"} |->
                     ColumnValues(src_df, fk[k].v[1])],
        kw |-> Pop(fk, bound)]

\* not df_iter_params or list(df_iter_params.keys()) == list(list_params.keys())
\* (both dictionaries are filled by one loop, so the key lists are equal
\* exactly when the key sets are)
OnlyListParams(iter, fixed) == DOMAIN iter = {} \/ DOMAIN iter = DOMAIN fixed

\* row[col] of src_df[list(df_iter_params.values())].iterrows(): a column
\* selected once gives the cell; a column selected by several parameters is a
\* repeated label of the row, and row[col] is then the Series of its copies
RowValue(src_df, iter, i, col) ==
    LET n == Cardinality({k \in DOMAIN iter : iter[k].v[1] = col})
    IN IF n = 1 THEN Str(src_df.rows[i][col])
       ELSE Series([j \in 1..n |-> src_df.rows[i][col]])

\* col_param_dict of row i
ColParamDict(src_df, iter, i) ==
    [k \in DOMAIN iter |-> RowValue(src_df, iter, i, iter[k].v[1])]

\* ------------------------------------------ _check_var_params_require_iter
\* func_params[kw_name] of an undeclared iterable keyword is a KeyError
\* faulty variant: an iterable for an undeclared name is iterated over
_check_var_params_lenient(fp, fk, parent) ==
    LET names == DOMAIN parent \ _DEF_IGNORE_PARAM
        iters == {k \in names : IsIterable(parent[k])}
    IN [exc |-> "none",
        iter |-> [k \in iters |-> List(parent[k].v)],
        simple |-> [k \in {q \in names : q \notin iters
                                         \/ (q \in DOMAIN fp /\ fp[q] = "list")} |->
                      IF k \in iters THEN List(parent[k].v) ELSE parent[k]],
        kw |-> Pop(fk, names)]

_check_var_params_require_iter(fp, fk, parent) ==
    LET names == DOMAIN parent \ _DEF_IGNORE_PARAM
        iters == {k \in names : IsIterable(parent[k])}
    IN IF \E k \in iters : k \notin DOMAIN fp
       THEN [exc |-> "KeyError", iter |-> EmptyDict, simple |-> EmptyDict,
             kw |-> fk]
       ELSE [exc |-> "none",
             iter |-> [k \in iters |-> List(parent[k].v)],
             simple |-> [k \in {q \in names : q \notin iters \/ fp[q] = "list"} |->
                           IF k \in iters THEN List(parent[k].v) ELSE parent[k]],
             kw |-> Pop(fk, names)]

\* faulty variant: the loop stops one tuple early
ZipLenShort(iter) ==
    LET n == Min({Len(iter[k].v) : k \in DOMAIN iter}) IN IF n > 0 THEN n - 1 ELSE 0

\* zip(*var_iter_params.values()): as many tuples as the shortest list
ZipLen(iter) == Min({Len(iter[k].v) : k \in DOMAIN iter})

\* col_param_dict of the i-th tuple
ValueParamDict(iter, i) == [k \in DOMAIN iter |-> Str(iter[k].v[i])]

\* --------------------------------------------------------- call_data_query
\* faulty variant: src_data is kept, and the index merge done, whether or not
\* `join` was given
JoinAndReturnAlways(src_data, jn, result_df) ==
    IF src_data.present /\ "src_row_index" \in result_df.cols
    THEN [exc |-> "none",
          result |-> DropRowIndex(MergeOn(src_data, result_df, "left",
                         IndexMatch(src_data, result_df))),
          warns |-> {}]
    ELSE [exc |-> "none", result |-> DropRowIndex(result_df), warns |-> {}]

\* what call_data_query returns once the query results are in: the join, or
\* the plain result, always without the helper column
JoinAndReturn(src_data, jn, result_df) ==
    IF Truthy(jn.type) /\ src_data.present
    THEN IF Truthy(jn.left_on) /\ Truthy(jn.right_on)
         THEN IF jn.left_on.v[1] \notin Columns \/ jn.right_on.v[1] \notin result_df.cols
              THEN [exc |-> "KeyError", result |-> NoResult, warns |-> {}]
              ELSE [exc |-> "none",
                    result |-> DropRowIndex(MergeOn(src_data, result_df, jn.type.v[1],
                                   KeyMatch(src_data, result_df, jn.left_on.v[1]))),
                    warns |-> {}]
         ELSE IF "src_row_index" \in result_df.cols
         THEN [exc |-> "none",
               result |-> DropRowIndex(MergeOn(src_data, result_df, jn.type.v[1],
                              IndexMatch(src_data, result_df))),
               warns |-> {}]
         ELSE [exc |-> "none", result |-> DropRowIndex(result_df),
               warns |-> {"no_index_merge"}]
    ELSE [exc |-> "none", result |-> DropRowIndex(result_df), warns |-> {}]

\* ------------------------------------------------------------ call inputs
Strip(f) == Restrict(f, {k \in DOMAIN f : f[k] # Absent})

\* join, left_on, right_on as a caller may give them
JoinSpecs ==
    { [join |-> Absent, left_on |-> Absent, right_on |-> Absent],
      [join |-> Absent, left_on |-> Str("hcol"), right_on |-> Absent],
      [join |-> Str(""), left_on |-> Absent, right_on |-> Absent],
      [join |-> Str(""), left_on |-> Str("hcol"), right_on |-> Str("rcol")],
      [join |-> Str("left"), left_on |-> Absent, right_on |-> Absent],
      [join |-> Str("left"), left_on |-> Str("hcol"), right_on |-> Absent],
      [join |-> Str("left"), left_on |-> Absent, right_on |-> Str("rcol")],
      [join |-> Str("left"), left_on |-> Str("hcol"), right_on |-> Str("rcol")],
      [join |-> Str("left"), left_on |-> Str("hcol"), right_on |-> Str("zz")],
      [join |-> Str("inner"), left_on |-> Str("hcol"), right_on |-> Absent],
      [join |-> Str("inner"), left_on |-> Str("hcol"), right_on |-> Str("rcol")] }

\* a table, with parameters given as column names or plain strings
DataInputs ==
    { [ent |-> FALSE, data |-> d,
       kw |-> Strip([host_name |-> h, account_name |-> a, join |-> j.join,
                     left_on |-> j.left_on, right_on |-> j.right_on])] :
        d \in Tables, h \in {Absent, Str("hcol"), Str("zz")},
        a \in {Absent, Str("hcol"), Str("acol")}, j \in JoinSpecs }

Prefixes(q) == {SubSeq(q, 1, n) : n \in 0..MaxLen}

\* no table: parameters given as scalars or lists
ValueInputs ==
    { [ent |-> FALSE, data |-> NoData,
       kw |-> Strip([host_name |-> h, account_name |-> a, join |-> j, user |-> u])] :
        h \in {Absent, Str("h1")} \cup {List(q) : q \in Prefixes(<<"h1", "h2", "h3", "h4">>)},
        a \in {Absent, Str("a1")} \cup {List(q) : q \in Prefixes(<<"a1", "a2", "a3", "a4">>)},
        j \in {Absent, Str("left")},
        u \in {Absent, List(<<"u1">>)} }

\* an entity instance as first positional argument
EntityInputs ==
    { [ent |-> TRUE, data |-> d,
       kw |-> Strip([host_name |-> h, start |-> s, end |-> e])] :
        d \in {NoData, Table(MaxRows, [i \in 1..MaxRows |-> i - 1])},
        h \in {Absent, Str("h9")},
        s \in {Absent, Time("s9")}, e \in {Absent, Time("e9")} }

CallInputs == DataInputs \cup ValueInputs \cup EntityInputs

\* ------------------------------------------------------------------ actions
PivotInit ==
    /\ pc = "unbound"
    /\ mode = "none"
    /\ func_params = EmptyDict
    /\ param_attrib_map = EmptyDict
    /\ timespan = 1
    /\ ts_reads = 0
    /\ entity = InitEntity
    /\ inp = NoInput
    /\ func_kwargs = EmptyDict
    /\ iter_params = EmptyDict
    /\ fixed_params = EmptyDict
    /\ join = NoJoin
    /\ calls = <<>>
    /\ row_results = <<>>
    /\ warns = {}
    /\ result = NoResult
    /\ exc = "none"

\* nothing constructed, nothing bound, no lookup made
NoProvider == [environment |-> "", queries |-> <<>>]

NoCurrent ==
    [built |-> FALSE, provider |-> NoProvider, ignore_reqd |-> NoneVal,
     param_usage |-> EmptyDict, query_params |-> EmptyDict, exc |-> "none"]

\* no constructor call has been made
NoInit ==
    [started |-> FALSE, provider |-> NoProvider, ignore_reqd |-> NoneVal, exc |-> "none"]

NoBind == [reg |-> NoCurrent, container |-> ""]

NoLookup == [op |-> "none", arg |-> <<>>, ret |-> <<>>, exc |-> "none"]

BindInit ==
    /\ current = NoCurrent
    /\ last_init = NoInit
    /\ entity_classes = NoContainers
    /\ bound_first = NoBind
    /\ bound_same = TRUE
    /\ lookup = NoLookup

\* config2kv has not been started
NoArgs ==
    [existing |-> FALSE, yes |-> FALSE, list |-> FALSE, show |-> FALSE,
     verbose |-> FALSE, output |-> FALSE]

NoWorld == [vault |-> FALSE, secrets |-> FALSE, outfile |-> FALSE]

KvIdle ==
    /\ kv_pc = "off"
    /\ kv_args = NoArgs
    /\ kv_world = NoWorld
    /\ kv_uri = FALSE
    /\ kv_log = <<>>

\* no AzureSentinel operation has been called
NoAzsCall ==
    [op |-> "none", res_id |-> NoneVal, sub_id |-> NoneVal, res_grp |-> NoneVal,
     ws_name |-> NoneVal]

AzsIdle ==
    /\ azs_config = EmptyDict
    /\ azs_file = EmptyDict
    /\ azs_call = NoAzsCall
    /\ azs_requests = <<>>
    /\ azs_exc = "none"

Init == PivotInit /\ BindInit /\ KvIdle /\ AzsIdle

\* no wrapped call is being served and none has left a record
ClearFrame ==
    /\ mode' = "none"
    /\ inp' = NoInput
    /\ func_kwargs' = EmptyDict
    /\ iter_params' = EmptyDict
    /\ fixed_params' = EmptyDict
    /\ join' = NoJoin
    /\ calls' = <<>>
    /\ row_results' = <<>>
    /\ warns' = {}
    /\ result' = NoResult
    /\ exc' = "none"

\* _param_and_call_wrapper: builds the two closures, calls nothing
Bind ==
    /\ pc = "unbound"
    /\ \E b \in BindChoices :
        /\ func_params' = b.fp
        /\ param_attrib_map' = b.am
    /\ pc' = "bound"
    /\ ts_reads' = 0
    /\ ClearFrame
    /\ UNCHANGED <<timespan, entity>>
    /\ UNCHANGED <<bind_vars, kv_vars, azs_vars>>

\* the notebook's time range changes between two wrapped calls
SetTimespan ==
    /\ pc \in {"bound", "idle"}
    /\ \E t \in Timespans \ {timespan} : timespan' = t
    /\ UNCHANGED <<pc, mode, func_params, param_attrib_map, ts_reads, entity, inp,
                   func_kwargs, iter_params, fixed_params, join, calls,
                   row_results, warns, result, exc>>
    /\ UNCHANGED <<bind_vars, kv_vars, azs_vars>>

\* the entity's attributes change between two wrapped calls
SetEntity ==
    /\ pc \in {"bound", "idle"}
    /\ \E e \in EntityStates \ {entity} : entity' = e
    /\ UNCHANGED <<pc, mode, func_params, param_attrib_map, timespan, ts_reads, inp,
                   func_kwargs, iter_params, fixed_params, join, calls,
                   row_results, warns, result, exc>>
    /\ UNCHANGED <<bind_vars, kv_vars, azs_vars>>

\* the wrapped call ends with exception x before any underlying call
Raise(x, w) ==
    /\ pc' = "done"
    /\ mode' = "none"
    /\ exc' = x
    /\ warns' = w
    /\ func_kwargs' = EmptyDict
    /\ iter_params' = EmptyDict
    /\ fixed_params' = EmptyDict
    /\ join' = NoJoin

\* call_data_query with a `data` table, up to the first underlying call
StartDf(kwargs, src_df) ==
    LET j == _get_join_params(kwargs)
        c == _check_df_params_require_iter(func_params, src_df, j.kw, kwargs)
    IN IF j.exc # "none" THEN Raise(j.exc, j.warns)
       ELSE /\ pc' = "exec"
            /\ mode' = IF OnlyListParams(c.iter, c.list) THEN "single" ELSE "rows"
            /\ exc' = "none"
            /\ warns' = j.warns
            /\ func_kwargs' = c.kw
            /\ iter_params' = c.iter
            /\ fixed_params' = c.list
            /\ join' = j.join

\* call_data_query without `data`, up to the first underlying call
StartValues(kwargs) ==
    LET c == _check_var_params_require_iter(func_params, kwargs, kwargs)
    IN IF c.exc # "none" THEN Raise(c.exc, {})
       ELSE /\ pc' = "exec"
            /\ exc' = "none"
            /\ warns' = {}
            /\ func_kwargs' = c.kw
            /\ iter_params' = c.iter
            /\ join' = NoJoin
            /\ IF OnlyListParams(c.iter, c.simple)
               THEN mode' = "single" /\ fixed_params' = c.simple
               ELSE mode' = "values" /\ fixed_params' = Pop(c.simple, DOMAIN c.iter)

\* a caller invokes the wrapped function
Call ==
    /\ pc \in {"bound", "idle"}
    /\ \E i \in CallInputs :
        LET w == wrapped_query_func(i.ent, i.kw, entity, param_attrib_map, timespan)
        IN /\ inp' = i
           /\ IF w.exc # "none" THEN Raise(w.exc, {})
              ELSE IF i.data.present THEN StartDf(w.kwargs, i.data)
              ELSE StartValues(w.kwargs)
    /\ ts_reads' = 2
    /\ calls' = <<>>
    /\ row_results' = <<>>
    /\ result' = NoResult
    /\ UNCHANGED env
    /\ UNCHANGED <<bind_vars, kv_vars, azs_vars>>

\* faulty variant: a failure of the underlying call is noted and the loop
\* carries on with the next row or value
InvokeAndCarryOn(kw, label, tagged) ==
    /\ calls' = Append(calls, kw)
    /\ \/ /\ \E k \in 0..MaxResRows :
              LET r == QueryResult(kw, Len(calls) + 1, k)
              IN row_results' = Append(row_results,
                                       IF tagged THEN TagRowIndex(r, label) ELSE r)
          /\ UNCHANGED <<pc, exc>>
       \/ /\ exc' = "QueryError"
          /\ UNCHANGED <<pc, row_results>>
    /\ UNCHANGED <<env, mode, ts_reads, inp, func_kwargs, iter_params,
                   fixed_params, join, warns, result>>
    /\ UNCHANGED <<bind_vars, kv_vars, azs_vars>>

\* one underlying call func(**kw): it returns a table of k rows, or raises
Invoke(kw, label, tagged) ==
    /\ calls' = Append(calls, kw)
    /\ \/ /\ \E k \in 0..MaxResRows :
              LET r == QueryResult(kw, Len(calls) + 1, k)
              IN row_results' = Append(row_results,
                                       IF tagged THEN TagRowIndex(r, label) ELSE r)
          /\ UNCHANGED <<pc, exc>>
       \/ /\ pc' = "done"
          /\ exc' = "QueryError"
          /\ UNCHANGED row_results
    /\ UNCHANGED <<env, mode, ts_reads, inp, func_kwargs, iter_params,
                   fixed_params, join, warns, result>>
    /\ UNCHANGED <<bind_vars, kv_vars, azs_vars>>

\* func(**list_params, **func_kwargs) / func(**simple_params, **func_kwargs)
ExecSingle ==
    /\ pc = "exec" /\ mode = "single"
    /\ calls = <<>>
    /\ Invoke(Merge2(fixed_params, func_kwargs), -1, FALSE)

\* one pass of the loop over src_df[...].iterrows()
ExecRow ==
    /\ pc = "exec" /\ mode = "rows"
    /\ Len(calls) < Len(inp.data.rows)
    /\ LET i == Len(calls) + 1
       IN Invoke(Merge2(ColParamDict(inp.data, iter_params, i), func_kwargs),
                 inp.data.index[i], TRUE)

\* one pass of the loop over zip(*var_iter_params.values())
ExecValue ==
    /\ pc = "exec" /\ mode = "values"
    /\ Len(calls) < ZipLen(iter_params)
    /\ LET i == Len(calls) + 1
       IN Invoke(Merge2(Merge2(fixed_params, ValueParamDict(iter_params, i)),
                        func_kwargs), -1, FALSE)

\* every underlying call of the wrapped call has returned
LoopDone ==
    \/ mode = "single" /\ Len(calls) = 1
    \/ mode = "rows" /\ Len(calls) = Len(inp.data.rows)
    \/ mode = "values" /\ Len(calls) = ZipLen(iter_params)

\* faulty variant: a loop that made no call returns an empty table
ReturnEmptyTable ==
    /\ pc = "exec"
    /\ LoopDone
    /\ pc' = "done"
    /\ IF mode # "single" /\ row_results = <<>>
       THEN exc' = "none" /\ result' = [rows |-> <<>>, cols |-> {}] /\ UNCHANGED warns
       ELSE LET result_df == IF mode = "single" THEN row_results[1]
                             ELSE Concat(row_results)
            IN IF inp.data.present
               THEN LET r == JoinAndReturn(inp.data, join, result_df)
                    IN /\ exc' = r.exc
                       /\ result' = r.result
                       /\ warns' = warns \cup r.warns
               ELSE exc' = "none" /\ result' = result_df /\ UNCHANGED warns
    /\ UNCHANGED <<env, mode, ts_reads, inp, func_kwargs, iter_params,
                   fixed_params, join, calls, row_results>>
    /\ UNCHANGED <<bind_vars, kv_vars, azs_vars>>

\* the wrapped call returns: concatenation, join, helper column dropped
Return ==
    /\ pc = "exec"
    /\ LoopDone
    /\ pc' = "done"
    /\ IF mode # "single" /\ row_results = <<>>
       THEN \* pd.concat([]): "No objects to concatenate"
            exc' = "ValueError" /\ result' = NoResult /\ UNCHANGED warns
       ELSE LET result_df == IF mode = "single" THEN row_results[1]
                             ELSE Concat(row_results)
            IN IF inp.data.present
               THEN LET r == JoinAndReturn(inp.data, join, result_df)
                    IN /\ exc' = r.exc
                       /\ result' = r.result
                       /\ warns' = warns \cup r.warns
               ELSE exc' = "none" /\ result' = result_df /\ UNCHANGED warns
    /\ UNCHANGED <<env, mode, ts_reads, inp, func_kwargs, iter_params,
                   fixed_params, join, calls, row_results>>
    /\ UNCHANGED <<bind_vars, kv_vars, azs_vars>>

\* the caller has the returned table or the exception; the wrapper keeps nothing
Collect ==
    /\ pc = "done"
    /\ pc' = "idle"
    /\ ts_reads' = 0
    /\ ClearFrame
    /\ UNCHANGED env
    /\ UNCHANGED <<bind_vars, kv_vars, azs_vars>>

Next ==
    \/ Bind
    \/ SetTimespan
    \/ SetEntity
    \/ Call
    \/ ExecSingle
    \/ ExecRow
    \/ ExecValue
    \/ Return
    \/ Collect

Spec == Init /\ [][Next]_vars

\* ===================================================================
\* Registry and binder
\* ===================================================================
\* the parameter names and query keys the lookups are tried with: declared
\* ones, one differing from a declared one in case only, unknown ones
LookupNames == {"host_name", "table", "Host_Name", "ip_address"}

LookupKeys ==
    { QueryKey("WindowsSecurity", "list_logons"),
      QueryKey("windowssecurity", "list_logons"),
      QueryKey("LinuxSyslog", "list_hosts") }

\* the instance PivotQueryFunctions(query_provider, ignore_reqd) constructs,
\* whole or, when the construction ends in an exception, as far as it got
NewRegistry(query_provider, ignore_reqd) ==
    LET r == PivotQueryFunctions(query_provider, ignore_reqd)
    IN [built |-> TRUE, provider |-> query_provider, ignore_reqd |-> ignore_reqd,
        param_usage |-> r.param_usage, query_params |-> r.query_params, exc |-> r.exc]

\* faulty variant: the handle is assigned when the construction has succeeded
HandleWhenBuilt(old, new) == IF new.exc = "none" THEN new ELSE old

\* self.__class__.current = self, the first statement of __init__
Handle(old, new) == new

\* the constructor call PivotQueryFunctions(query_provider, ignore_reqd)
InitCall(query_provider, ignore_reqd) ==
    LET self == NewRegistry(query_provider, ignore_reqd)
    IN /\ current' = Handle(current, self)
       /\ last_init' = [started |-> TRUE, provider |-> query_provider,
                        ignore_reqd |-> ignore_reqd, exc |-> self.exc]

\* PivotQueryFunctions(query_provider, ignore_reqd)
Construct ==
    /\ \E p \in Providers, ign \in IgnoreReqds : InitCall(p, ign)
    /\ lookup' = NoLookup
    /\ UNCHANGED <<entity_classes, bound_first, bound_same>>
    /\ UNCHANGED <<pivot_vars, kv_vars, azs_vars>>

\* one run of add_queries_to_entities(prov_qry_funcs, container, ...)
BindRun(prov_qry_funcs, container) ==
    LET this == [reg |-> prov_qry_funcs, container |-> container]
    IN /\ entity_classes.run < MaxBinds
       /\ entity_classes' = add_queries_to_entities(prov_qry_funcs, container,
                                                    entity_classes)
       /\ bound_first' = IF entity_classes.run = 0 THEN this ELSE bound_first
       /\ bound_same' = IF entity_classes.run = 0 THEN TRUE
                        ELSE bound_same /\ bound_first = this
       /\ lookup' = NoLookup
       /\ UNCHANGED <<pivot_vars, kv_vars, azs_vars>>

\* add_queries_to_entities on the current registry
AddQueries ==
    /\ current.built
    /\ \E c \in ContainerNames : BindRun(current, c)
    /\ UNCHANGED <<current, last_init>>

\* add_data_queries_to_entities(provider, get_timespan): nothing is bound
\* when the constructor raises
AddDataQueries ==
    \E p \in Providers :
        /\ InitCall(p, NoneVal)
        /\ IF NewRegistry(p, NoneVal).exc = "none"
           THEN BindRun(NewRegistry(p, NoneVal), p.environment)
           ELSE /\ lookup' = NoLookup
                /\ UNCHANGED <<entity_classes, bound_first, bound_same>>
                /\ UNCHANGED <<pivot_vars, kv_vars, azs_vars>>

\* a lookup on the current registry returns r
LookupStep(op, arg, r) ==
    /\ current.built
    /\ lookup' = [op |-> op, arg |-> arg, ret |-> r.ret, exc |-> r.exc]
    /\ current' = [current EXCEPT !.param_usage = r.param_usage]
    /\ UNCHANGED <<last_init, entity_classes, bound_first, bound_same>>
    /\ UNCHANGED <<pivot_vars, kv_vars, azs_vars>>

GetQueriesForParam ==
    \E p \in LookupNames :
        LookupStep("get_queries_for_param", <<p>>, get_queries_for_param(current, p))

GetQueriesAndTypesForParam ==
    \E p \in LookupNames :
        LookupStep("get_queries_and_types_for_param", <<p>>,
                   get_queries_and_types_for_param(current, p))

GetParams ==
    \E k \in LookupKeys : LookupStep("get_params", k, get_params(current, k))

GetParamAttrs ==
    \E p \in LookupNames :
        LookupStep("get_param_attrs", <<p>>, get_param_attrs(current, p))

\* registries are constructed and bound to the entity classes
NextBind ==
    \/ Construct
    \/ AddQueries
    \/ AddDataQueries

SpecBind == Init /\ [][NextBind]_vars

\* registries are constructed and queried
NextLookup ==
    \/ Construct
    \/ GetQueriesForParam
    \/ GetQueriesAndTypesForParam
    \/ GetParams
    \/ GetParamAttrs

SpecLookup == Init /\ [][NextLookup]_vars

\* ===================================================================
\* tools/config2kv.py: the main flow
\* ===================================================================
\* the command lines: every combination of the flags, --output given or not
ArgSets ==
    [existing : BOOLEAN, yes : BOOLEAN, list : BOOLEAN, show : BOOLEAN,
     verbose : BOOLEAN, output : BOOLEAN]

\* outside the script: the named vault exists, the settings file holds
\* secrets to move, the output file exists
Worlds == [vault : BOOLEAN, secrets : BOOLEAN, outfile : BOOLEAN]

\* _prompt_yn(mssg, confirm): the user's answer, "y" without asking when
\* confirm is false
PromptYn(confirm) == IF confirm THEN {TRUE, FALSE} ELSE {TRUE}

\* prompt = not args.yes
KvPrompt == ~kv_args.yes

InitKv ==
    /\ PivotInit /\ BindInit /\ AzsIdle
    /\ kv_pc = "start"
    /\ kv_args \in ArgSets
    /\ kv_world \in Worlds
    /\ kv_uri = FALSE
    /\ kv_log = <<>>

\* if args.list: _list_secrets(vault_name=vault, confirm=prompt, **kv_args)
KvListSecrets ==
    /\ kv_pc = "start"
    /\ kv_pc' = "transform"
    /\ IF kv_args.list
       THEN \E show_secrets \in PromptYn(KvPrompt) :
               kv_log' = kv_log \o <<IF show_secrets THEN "list_secret_values"
                                     ELSE "list_secret_names">>
       ELSE UNCHANGED kv_log
    /\ UNCHANGED <<kv_args, kv_world, kv_uri>>
    /\ UNCHANGED <<pivot_vars, bind_vars, azs_vars>>

\* _transform_settings and the three ways out before the vault is touched
KvTransform ==
    /\ kv_pc = "transform"
    /\ IF kv_args.show \/ kv_args.verbose
       THEN kv_pc' = "exit" /\ kv_log' = Append(kv_log, "show_settings")
       ELSE IF ~kv_world.secrets
       THEN kv_pc' = "exit" /\ UNCHANGED kv_log
       ELSE IF ~kv_args.output
       THEN kv_pc' = "ValueError" /\ UNCHANGED kv_log
       ELSE kv_pc' = "get_vault_uri" /\ UNCHANGED kv_log
    /\ UNCHANGED <<kv_args, kv_world, kv_uri>>
    /\ UNCHANGED <<pivot_vars, bind_vars, azs_vars>>

\* _add_secrets_to_vault: kv_mgmt.get_vault_uri(vault_name), or CloudError
KvGetVaultUri ==
    /\ kv_pc = "get_vault_uri"
    /\ kv_log' = Append(kv_log, "get_vault_uri")
    /\ IF kv_world.vault
       THEN kv_uri' = TRUE /\ kv_pc' = "add_secrets"
       ELSE kv_uri' = FALSE /\ kv_pc' = "create_vault"
    /\ UNCHANGED <<kv_args, kv_world>>
    /\ UNCHANGED <<pivot_vars, bind_vars, azs_vars>>

\* faulty variant: the script ends when the creation of the vault is declined
KvCreateVaultOrExit ==
    /\ kv_pc = "create_vault"
    /\ \E create \in PromptYn(KvPrompt) :
        IF create
        THEN /\ kv_log' = Append(kv_log, "create_vault")
             /\ kv_world' = [kv_world EXCEPT !.vault = TRUE]
             /\ kv_uri' = TRUE
             /\ kv_pc' = "add_secrets"
        ELSE /\ kv_pc' = "exit"
             /\ UNCHANGED <<kv_log, kv_world, kv_uri>>
    /\ UNCHANGED kv_args
    /\ UNCHANGED <<pivot_vars, bind_vars, azs_vars>>

\* _add_secrets_to_vault: the vault was not found; create it if the prompt
\* says so, and return when there is still no vault_uri
KvCreateVault ==
    /\ kv_pc = "create_vault"
    /\ \E create \in PromptYn(KvPrompt) :
        IF create
        THEN /\ kv_log' = Append(kv_log, "create_vault")
             /\ kv_world' = [kv_world EXCEPT !.vault = TRUE]
             /\ kv_uri' = TRUE
             /\ kv_pc' = "add_secrets"
        ELSE /\ kv_pc' = "write_config"
             /\ UNCHANGED <<kv_log, kv_world, kv_uri>>
    /\ UNCHANGED kv_args
    /\ UNCHANGED <<pivot_vars, bind_vars, azs_vars>>

\* _add_secrets_to_vault: set every secret if the prompt says so
KvAddSecrets ==
    /\ kv_pc = "add_secrets"
    /\ \E add \in PromptYn(KvPrompt) :
        IF add THEN kv_log' = Append(kv_log, "set_secret") ELSE UNCHANGED kv_log
    /\ kv_pc' = "write_config"
    /\ UNCHANGED <<kv_args, kv_world, kv_uri>>
    /\ UNCHANGED <<pivot_vars, bind_vars, azs_vars>>

\* _write_config_settings(conf_file=args.output, ..., confirm=prompt)
KvWriteConfig ==
    /\ kv_pc = "write_config"
    /\ \E overwrite \in (IF kv_world.outfile THEN PromptYn(KvPrompt) ELSE {TRUE}) :
        IF overwrite
        THEN /\ kv_log' = Append(kv_log, "write_config")
             /\ kv_world' = [kv_world EXCEPT !.outfile = TRUE]
        ELSE UNCHANGED <<kv_log, kv_world>>
    /\ kv_pc' = "exit"
    /\ UNCHANGED <<kv_args, kv_uri>>
    /\ UNCHANGED <<pivot_vars, bind_vars, azs_vars>>

NextKv ==
    \/ KvListSecrets
    \/ KvTransform
    \/ KvGetVaultUri
    \/ KvCreateVault
    \/ KvAddSecrets
    \/ KvWriteConfig

SpecKv == InitKv /\ [][NextKv]_vars

\* ===================================================================
\* msticpy/data/azure_sentinel.py: the workspace operations
\* ===================================================================
\* A path or URL is the sequence of its "/"-separated segments; an argument
\* that is None is the empty string, a res_id that is None the empty path.

\* _PATH_MAPPING
PathMapping(key) ==
    IF key = "alert_rules" THEN <<"providers", "Microsoft.SecurityInsights", "alertRules">>
    ELSE IF key = "ss_path" THEN <<"savedSearches">>
    ELSE IF key = "bookmarks" THEN <<"providers", "Microsoft.SecurityInsights", "bookmarks">>
    ELSE <<"providers", "Microsoft.SecurityInsights", "incidents">>

\* a resource ID as a caller writes it
GivenResId ==
    <<"", "subscriptions", "subA", "resourceGroups", "rgA", "providers",
      "Microsoft.OperationalInsights", "workspaces", "wsA">>

\* what WorkspaceConfig() may find: all three settings, or no workspace name
ConfigFiles ==
    { [subscription_id |-> "subC", resource_group |-> "rgC", workspace_name |-> "wsC"],
      [subscription_id |-> "subC", resource_group |-> "rgC"] }

\* the arguments of a workspace operation
AzsArgs ==
    [res_id : {<<>>, GivenResId}, sub_id : {"", "sub1"}, res_grp : {"", "rg1"},
     ws_name : {"", "ws1", "ws2"}]

\* the status codes of a response
StatusCodes == {200, 201, 404}

\* _check_config(["subscription_id", "resource_group", "workspace_name"]):
\* the configuration is loaded when self.config is not set
CheckConfig(config, file) ==
    LET loaded == IF config = EmptyDict THEN file ELSE config
    IN [config |-> loaded,
        exc |-> IF {"subscription_id", "resource_group", "workspace_name"}
                      \subseteq DOMAIN loaded
                THEN "none" ELSE "MsticpyAzureConfigError"]

\* res_id = f"/subscriptions/{sub_id}/resourcegroups/{res_grp}", followed by
\* "/providers/Microsoft.OperationalInsights/workspaces/{ws_name}", a plain
\* string in which {ws_name} stays as written
FormatResId(sub_id, res_grp, ws_name) ==
    <<"", "subscriptions", sub_id, "resourcegroups", res_grp, "providers",
      "Microsoft.OperationalInsights", "workspaces", "{ws_name}">>

\* the head of every operation: the res_id given, or the one put together
\* from the arguments or, when one of them is missing, from the configuration
ResolveResId(a, config, file) ==
    IF a.res_id # <<>> THEN [exc |-> "none", res_id |-> a.res_id, config |-> config]
    ELSE IF a.sub_id = "" \/ a.res_grp = "" \/ a.ws_name = ""
    THEN LET c == CheckConfig(config, file)
         IN IF c.exc # "none" THEN [exc |-> c.exc, res_id |-> <<>>, config |-> c.config]
            ELSE [exc |-> "none",
                  res_id |-> FormatResId(c.config.subscription_id,
                                         c.config.resource_group,
                                         c.config.workspace_name),
                  config |-> c.config]
    ELSE [exc |-> "none", res_id |-> FormatResId(a.sub_id, a.res_grp, a.ws_name),
          config |-> config]

\* _build_paths(resid): segments 2, 4 and -1 of resid.split("/")
_build_paths(resid) ==
    <<"https://management.azure.com", "subscriptions", resid[3], "resourceGroups",
      resid[5], "providers", "Microsoft.OperationalInsights", "workspaces",
      resid[Len(resid)]>>

InitAzs ==
    /\ PivotInit /\ BindInit /\ KvIdle
    /\ azs_config = EmptyDict
    /\ azs_file \in ConfigFiles
    /\ azs_call = NoAzsCall
    /\ azs_requests = <<>>
    /\ azs_exc = "none"

\* an operation that sends one request to url_of(workspace URL) and raises
\* CloudError unless the response has status `ok`
OneRequest(op, method, tail, ok) ==
    \E a \in AzsArgs :
        LET r == ResolveResId(a, azs_config, azs_file)
        IN /\ azs_call' = [op |-> op, res_id |-> a.res_id, sub_id |-> a.sub_id,
                           res_grp |-> a.res_grp, ws_name |-> a.ws_name]
           /\ azs_config' = r.config
           /\ IF r.exc # "none"
              THEN azs_requests' = <<>> /\ azs_exc' = r.exc
              ELSE /\ azs_requests' =
                        <<[method |-> method, url |-> _build_paths(r.res_id) \o tail]>>
                   /\ \E status \in StatusCodes :
                        azs_exc' = IF status = ok THEN "none" ELSE "CloudError"
           /\ UNCHANGED azs_file
           /\ UNCHANGED <<pivot_vars, bind_vars, kv_vars>>

GetHuntingQueries == OneRequest("get_hunting_queries", "GET", PathMapping("ss_path"), 200)

GetAlertRules == OneRequest("get_alert_rules", "GET", PathMapping("alert_rules"), 200)

GetBookmarks == OneRequest("get_bookmarks", "GET", PathMapping("bookmarks"), 200)

GetIncidents == OneRequest("get_incidents", "GET", PathMapping("incidents"), 200)

GetIncident ==
    OneRequest("get_incident", "GET", PathMapping("incidents") \o <<"incident1">>, 200)

PostComment ==
    OneRequest("post_comment", "PUT",
               PathMapping("incidents") \o <<"incident1", "comments", "uuid4">>, 201)

\* update_incident: get_incident(incident_id, res_id=res_id), then the PUT
UpdateIncident ==
    \E a \in AzsArgs :
        LET r == ResolveResId(a, azs_config, azs_file)
            incident_url == _build_paths(r.res_id) \o PathMapping("incidents")
                                \o <<"incident1">>
            get == [method |-> "GET", url |-> incident_url]
            put == [method |-> "PUT", url |-> incident_url]
        IN /\ azs_call' = [op |-> "update_incident", res_id |-> a.res_id,
                           sub_id |-> a.sub_id, res_grp |-> a.res_grp,
                           ws_name |-> a.ws_name]
           /\ azs_config' = r.config
           /\ IF r.exc # "none"
              THEN azs_requests' = <<>> /\ azs_exc' = r.exc
              ELSE \E got \in StatusCodes :
                     IF got # 200
                     THEN azs_requests' = <<get>> /\ azs_exc' = "CloudError"
                     ELSE /\ azs_requests' = <<get, put>>
                          /\ \E status \in StatusCodes :
                               azs_exc' = IF status = 200 THEN "none" ELSE "CloudError"
           /\ UNCHANGED azs_file
           /\ UNCHANGED <<pivot_vars, bind_vars, kv_vars>>

NextAzs ==
    \/ GetHuntingQueries
    \/ GetAlertRules
    \/ GetBookmarks
    \/ GetIncidents
    \/ GetIncident
    \/ UpdateIncident
    \/ PostComment

SpecAzs == InitAzs /\ [][NextAzs]_vars

\* ===================================================================
\* Properties
\* ===================================================================
\* the keyword arguments the executor is given for the call being served:
\* the caller's, and for an entity call the attributes the entity has
Supplied ==
    IF inp.ent THEN Merge2(inp.kw, ParamDict(entity, param_attrib_map)) ELSE inp.kw

\* a wrapped call with a `data` table is being served or has just ended
Tabular == pc \in {"exec", "done"} /\ inp.data.present

\* the declared parameters whose supplied string value names a column
ColParams ==
    {k \in (DOMAIN Supplied \cap DOMAIN func_params) \ _DEF_IGNORE_PARAM :
        IsStr(Supplied[k]) /\ Supplied[k].v[1] \in Columns}

JoinRequested == "join" \in DOMAIN inp.kw /\ Truthy(inp.kw["join"])

\* the keywords the executor itself consumes
JoinKeys == IF JoinRequested THEN {"join", "left_on", "right_on"} ELSE {"join"}

\* the wrapped call ended without an exception of the underlying query
Ended == pc = "done" /\ exc # "QueryError"

\* C1: in tabular mode, when every column-bound parameter is list-capable,
\* the underlying function is called exactly once, with the whole column (in
\* row order) for each such parameter and the remaining keywords unchanged.
C1_BulkCalledOnce ==
    (Tabular /\ Ended /\ ColParams # {} /\ \A k \in ColParams : func_params[k] = "list")
    => /\ Len(calls) = 1
       /\ \A k \in ColParams :
            calls[1][k] = List([i \in DOMAIN inp.data.rows |->
                                   inp.data.rows[i][Supplied[k].v[1]]])
       /\ \A k \in DOMAIN Supplied \ (ColParams \cup JoinKeys \cup _DEF_IGNORE_PARAM) :
            calls[1][k] = Supplied[k]

\* C2: in tabular mode, when some column-bound parameter is not
\* list-capable, the underlying function is called once per source row in row
\* order with that row's values, each result is tagged with the row's index,
\* and the returned table is the concatenation without src_row_index.
C2_CalledOncePerRow ==
    (Tabular /\ Ended /\ \E k \in ColParams : func_params[k] # "list")
    => /\ Len(calls) = Len(inp.data.rows)
       /\ \A i \in DOMAIN calls : \A k \in ColParams :
            calls[i][k] = Str(inp.data.rows[i][Supplied[k].v[1]])
       /\ \A i \in DOMAIN row_results :
            /\ "src_row_index" \in row_results[i].cols
            /\ \A j \in DOMAIN row_results[i].rows :
                 row_results[i].rows[j].sri = inp.data.index[i]
       /\ exc = "none" =>
            /\ "src_row_index" \notin result.cols
            /\ ~JoinRequested => result.rows = DropRowIndex(Concat(row_results)).rows

\* the non-string iterables the caller gave, time parameters aside
IterGiven == {k \in DOMAIN Supplied \ _DEF_IGNORE_PARAM : IsIterable(Supplied[k])}

\* C3: in scalar/list mode, when the executor iterates, exactly
\* min(n1..nk) underlying calls are made for iterable parameters of lengths
\* n1..nk, the i-th call receives the i-th element of each of them, and the
\* elements beyond the shortest length reach no call.  Iteration is taken
\* whenever some iterable parameter is not list-capable.
C3_ZipTruncation ==
    /\ (pc \in {"exec", "done"} /\ ~inp.data.present /\ IterGiven # {}
        /\ IterGiven \subseteq DOMAIN func_params
        /\ \E k \in IterGiven : func_params[k] # "list")
       => mode = "values"
    /\ mode = "values"
       => LET n == Min({Len(Supplied[k].v) : k \in IterGiven})
          IN /\ Len(calls) <= n
             /\ Ended => Len(calls) = n
             /\ \A i \in DOMAIN calls : \A k \in IterGiven :
                  calls[i][k] = Str(Supplied[k].v[i])

\* C3 witness: lists of lengths 3 and 2 gave exactly two calls, (h1, a1) and
\* then (h2, a2)
C3_Witness ==
    /\ pc = "done" /\ exc = "none" /\ mode = "values"
    /\ DOMAIN inp.kw = {"host_name", "account_name"}
    /\ func_params["host_name"] = "list" /\ func_params["account_name"] = "str"
    /\ inp.kw["host_name"] = List(<<"h1", "h2", "h3">>)
    /\ inp.kw["account_name"] = List(<<"a1", "a2">>)
    /\ Len(calls) = 2
    /\ calls[1]["host_name"] = Str("h1") /\ calls[1]["account_name"] = Str("a1")
    /\ calls[2]["host_name"] = Str("h2") /\ calls[2]["account_name"] = Str("a2")

\* the mapped parameters the caller gave no explicit keyword for
EntityCall == pc \in {"exec", "done"} /\ inp.ent
              /\ DOMAIN param_attrib_map \cap DOMAIN inp.kw = {}

\* a value the executor would read as a column of the supplied table
NamesColumn(x) == inp.data.present /\ IsStr(x) /\ x.v[1] \in Columns

C5_NeverMixed ==
    (Tabular /\ \E k \in ColParams : func_params[k] # "list")
    => \A i \in DOMAIN calls : \A k \in ColParams :
          calls[i][k] = Str(inp.data.rows[i][Supplied[k].v[1]])

\* the returned table carries columns or rows of the source table
HasSourceColumns ==
    result.cols \cap Columns # {} \/ \E r \in DOMAIN result.rows : result.rows[r].src # 0

\* C6: the returned table is merged with the source table only if the call
\* gave both `data` and a truthy `join`; in every other call that returns, the
\* table is the underlying result(s) alone.
C6_JoinOnlyWithDataAndJoin ==
    pc = "done"
    => /\ HasSourceColumns => (inp.data.present /\ JoinRequested)
       /\ (exc = "none" /\ ~(inp.data.present /\ JoinRequested))
          => /\ result.rows = DropRowIndex(Concat(row_results)).rows
             /\ result.cols = {"rcol"}

\* C6 witness: a per-row call on a table, with `left_on` but no `join`,
\* returned the plain results
C6_Witness ==
    /\ pc = "done" /\ exc = "none" /\ inp.data.present /\ mode = "rows"
    /\ "left_on" \in DOMAIN inp.kw /\ ~JoinRequested
    /\ Len(calls) = MaxRows
    /\ result.rows # <<>>
    /\ ~HasSourceColumns

\* C7: a tabular call with a truthy `join` and any combination of left_on and
\* right_on ends without an exception of the wrapper (here on a table that has
\* rows).
C7_JoinNeverFails ==
    (pc = "done" /\ inp.data.present /\ JoinRequested /\ inp.data.rows # <<>>)
    => exc \in {"none", "QueryError"}

\* the index labels of the source table are pairwise distinct
UniqueIndex ==
    \A i, j \in DOMAIN inp.data.index : inp.data.index[i] = inp.data.index[j] => i = j

\* C8: with unique source indexes, per-row execution returning one row per
\* call and a left join without left_on/right_on, the returned table has one
\* row per source row, paired with the result of that row's call, and no
\* src_row_index.
C8_IndexJoinRoundTrip ==
    (/\ Tabular /\ Ended /\ UniqueIndex /\ inp.data.rows # <<>>
     /\ JoinRequested /\ inp.kw["join"] = Str("left")
     /\ "left_on" \notin DOMAIN inp.kw /\ "right_on" \notin DOMAIN inp.kw
     /\ \E k \in ColParams : func_params[k] # "list"
     /\ \A i \in DOMAIN row_results : Len(row_results[i].rows) = 1)
    => /\ exc = "none"
       /\ Len(result.rows) = Len(inp.data.rows)
       /\ \A i \in DOMAIN result.rows :
            result.rows[i].src = i /\ result.rows[i].call = i
       /\ "src_row_index" \notin result.cols

\* C9: an entity call that also gives an explicit keyword for a parameter the
\* entity supplies proceeds, and the underlying calls receive the explicit
\* value.
C9_ExplicitOverridesEntity ==
    (pc = "done" /\ inp.ent)
    => \A p \in DOMAIN param_attrib_map \cap DOMAIN inp.kw :
          param_attrib_map[p] \in DOMAIN entity
          => /\ exc \in {"none", "QueryError"}
             /\ calls # <<>>
             /\ \A i \in DOMAIN calls : calls[i][p] = inp.kw[p]

\* C10: every underlying call receives as start/end the explicit keyword when
\* one was given and otherwise the accessor's value at the time of the call;
\* binding does not invoke the accessor.
C10_TimeParamsAtCallTime ==
    /\ pc = "bound" => ts_reads = 0
    /\ \A i \in DOMAIN calls :
         /\ calls[i]["start"] = IF "start" \in DOMAIN inp.kw THEN inp.kw["start"]
                                ELSE TsStart(timespan)
         /\ calls[i]["end"] = IF "end" \in DOMAIN inp.kw THEN inp.kw["end"]
                              ELSE TsEnd(timespan)

\* C10 witness: the timespan was changed after binding, and a call that gave
\* `end` but not `start` passed the new start and the explicit end
C10_Witness ==
    /\ pc = "done" /\ exc = "none" /\ timespan = 2
    /\ "start" \notin DOMAIN inp.kw /\ "end" \in DOMAIN inp.kw
    /\ calls # <<>>
    /\ calls[1]["start"] = Time("s2")
    /\ calls[1]["end"] = Time("e9")

\* the number of underlying calls the loop of the wrapped call would make
Planned ==
    IF mode = "rows" THEN Len(inp.data.rows)
    ELSE IF mode = "values" THEN ZipLen(iter_params)
    ELSE 1

\* C11: a failure of the underlying function on the k-th call ends the wrapped
\* call with that exception: the k-1 earlier calls have returned, no call
\* follows the failing one, no row or value is tried twice, and while the loop
\* runs every call issued has returned before the next is issued.
C11_FailurePropagates ==
    /\ exc = "QueryError"
       => /\ pc = "done"
          /\ calls # <<>>
          /\ Len(row_results) = Len(calls) - 1
    /\ pc = "exec" => Len(row_results) = Len(calls)
    /\ pc \in {"exec", "done"} /\ mode # "none" => Len(calls) <= Planned

\* C11 witness: the second of three per-value calls failed; the first had
\* returned, the third was never issued
C11_Witness ==
    /\ pc = "done" /\ exc = "QueryError" /\ mode = "values"
    /\ ZipLen(iter_params) = 3
    /\ Len(calls) = 2
    /\ Len(row_results) = 1

\* every binding run so far used one registry and one container name
Rebound == entity_classes.run >= 1 /\ bound_same

\* what a single binding run with that registry and name leaves
BoundOnce ==
    add_queries_to_entities(bound_first.reg, bound_first.container, NoContainers)

\* C12: after one or more binding runs with the same provider and container
\* name, every entity class has the same container objects with the same
\* attached names (and functions of the same queries) as after one run.
C12_BindingIdempotent ==
    Rebound => entity_classes.classes = BoundOnce.classes

\* C12 witness: the second run of a binding that gave Host a container of
\* three functions
C12_Witness ==
    /\ Rebound /\ entity_classes.run = 2
    /\ bound_first.container \in DOMAIN entity_classes.classes["Host"]
    /\ Cardinality(DOMAIN entity_classes.classes["Host"][bound_first.container].funcs) = 3

\* the ParamAttrs records the current registry holds for parameter p
AttrsOf(p) ==
    (IF p \in DOMAIN current.param_usage
     THEN SeqToSet(current.param_usage[p]) ELSE {})
    \cup {current.query_params[k].param_attrs[p] :
             k \in {q \in DOMAIN current.query_params :
                       p \in DOMAIN current.query_params[q].param_attrs}}

\* p is in no `required` list and no ParamAttrs of p has required = True
NeverRequired(p) ==
    /\ \A k \in DOMAIN current.query_params : p \notin current.query_params[k].required
    /\ \A a \in AttrsOf(p) : ~a.required

\* C13 as stated: whatever ignore_reqd was, start and end are never required.
C13_StartEndNeverRequired ==
    current.built => NeverRequired("start") /\ NeverRequired("end")

\* C13 amended: start and end are never required when ignore_reqd is None or
\* empty, and a name listed in a non-empty ignore_reqd is never required; a
\* non-empty ignore_reqd replaces the default, so that start or end stays
\* required where a query requires it and ignore_reqd does not list it.
C13_IgnoredNeverRequired ==
    current.built
    => /\ ~Truthy(current.ignore_reqd) => NeverRequired("start") /\ NeverRequired("end")
       /\ Truthy(current.ignore_reqd)
          => \A p \in SeqToSet(current.ignore_reqd.v) : NeverRequired(p)

\* some query of the current provider has p among its required_params
SourceRequires(p) ==
    \E i \in DOMAIN current.provider.queries :
        p \in SeqToSet(current.provider.queries[i].required)

\* C13 witness: a registry built with ignore_reqd = [] from a provider whose
\* queries require start and end, and one built with ["end", "host_name"],
\* which leaves start required
C13_Witness ==
    /\ current.built /\ SourceRequires("start") /\ SourceRequires("end")
    /\ \/ current.ignore_reqd = List(<<>>)
       \/ /\ current.ignore_reqd = List(<<"end", "host_name">>)
          /\ SourceRequires("host_name")
          /\ ~NeverRequired("start")

\* no query of the current provider declares parameter p
Undeclared(p) ==
    \A i \in DOMAIN current.provider.queries :
        p \notin DeclaredNames(current.provider.queries[i])

\* the current provider has no query with this key
UnknownKey(k) ==
    \A i \in DOMAIN current.provider.queries :
        QueryKey(current.provider.queries[i].family, current.provider.queries[i].name) # k

\* C14: a lookup of a parameter name no query declares returns an empty
\* sequence, get_params of an unknown key returns None, neither raises, and
\* the registry is after every lookup what the construction made it.
C14_UnknownLookupsEmpty ==
    /\ current.built
       => LET r == PivotQueryFunctions(current.provider, current.ignore_reqd)
          IN /\ current.param_usage = r.param_usage
             /\ current.query_params = r.query_params
    /\ (lookup.op \in {"get_queries_for_param", "get_queries_and_types_for_param",
                       "get_param_attrs"} /\ Undeclared(lookup.arg[1]))
       => lookup.ret = <<>> /\ lookup.exc = "none"
    /\ (lookup.op = "get_params" /\ UnknownKey(lookup.arg))
       => lookup.ret = <<>> /\ lookup.exc = "none"

\* C14 witness: get_param_attrs("Host_Name") on a registry whose queries
\* declare host_name returned the empty list
C14_Witness ==
    /\ lookup.op = "get_param_attrs" /\ lookup.arg = <<"Host_Name">>
    /\ ~Undeclared("host_name")
    /\ lookup.ret = <<>>

\* the static map names entity class cls as a candidate of parameter p
MapAssigns(p, cls) ==
    \E i \in DOMAIN PARAM_ENTITY_MAP :
        /\ PARAM_ENTITY_MAP[i].param = p
        /\ \E j \in DOMAIN PARAM_ENTITY_MAP[i].ents : PARAM_ENTITY_MAP[i].ents[j].cls = cls

\* the keys of the queries attached to entity class cls, under any name
AttachedQueries(cls) == {f.query : f \in Attached(entity_classes, cls)}

\* the query sources of the providers bound so far are among these
SourceOf(k) ==
    CHOOSE i \in DOMAIN QuerySources : QueryKey(QuerySources[i].family, QuerySources[i].name) = k

\* C15: a query is attached to entity class E only if it declares a parameter
\* the map assigns to E; a query without parameters, and a query whose only
\* mapped parameter has an empty candidate list, is attached to no class.
C15_AttachedOnlyIfMapped ==
    \A cls \in EntityClasses : \A k \in AttachedQueries(cls) :
        /\ DeclaredNames(QuerySources[SourceOf(k)]) # {}
        /\ \E p \in DeclaredNames(QuerySources[SourceOf(k)]) : MapAssigns(p, cls)

\* C15 witness: a provider with get_host (host_name, proc_op,
\* logon_session_id) and search (query_term, proc_op) was bound: get_host is
\* attached to Host and to Process, search to no class, nothing to Url
C15_Witness ==
    /\ entity_classes.run = 1
    /\ bound_first.reg.provider = Provider("LocalData", <<1, 2, 4, 6>>)
    /\ QueryKey("LinuxSyslog", "get_host") \in AttachedQueries("Host")
    /\ QueryKey("LinuxSyslog", "get_host") \in AttachedQueries("Process")
    /\ \A cls \in EntityClasses : QueryKey("LinuxSyslog", "search") \notin AttachedQueries(cls)
    /\ entity_classes.classes["Url"] = EmptyDict

\* an entity call, without explicit host_name, of a function the binder
\* attached with host_name in its attribute map
HostEntityCall ==
    /\ pc \in {"exec", "done"} /\ inp.ent
    /\ "host_name" \notin DOMAIN inp.kw
    /\ "host_name" \in DOMAIN param_attrib_map

\* C16 as stated: the entity has Name = "host1", and the underlying call
\* receives host_name = "host1".
C16_NameReachesHostName ==
    (HostEntityCall /\ pc = "done" /\ exc = "none"
     /\ "Name" \in DOMAIN entity /\ entity["Name"] = Str("host1"))
    => /\ calls # <<>>
       /\ \A i \in DOMAIN calls :
            "host_name" \in DOMAIN calls[i] /\ calls[i]["host_name"] = Str("host1")

\* C16 amended: the attribute the static map reads for host_name is fqdn; an
\* entity with fqdn = "host1" gives host_name = "host1" to every underlying
\* call, and with no other argument than start/end exactly one call is made.
C16_FqdnReachesHostName ==
    (HostEntityCall /\ "fqdn" \in DOMAIN entity /\ entity["fqdn"] = Str("host1"))
    => /\ param_attrib_map["host_name"] = "fqdn"
       /\ \A i \in DOMAIN calls :
            "host_name" \in DOMAIN calls[i] /\ calls[i]["host_name"] = Str("host1")
       /\ (pc = "done" /\ DOMAIN inp.kw \subseteq _DEF_IGNORE_PARAM)
          => Len(calls) = 1

\* C16 witness: such a call with no keyword at all returned after one
\* underlying call with host_name = "host1"
C16_Witness ==
    /\ HostEntityCall /\ pc = "done" /\ exc = "none"
    /\ entity = [fqdn |-> Str("host1")]
    /\ inp.kw = EmptyDict /\ ~inp.data.present
    /\ Len(calls) = 1
    /\ calls[1]["host_name"] = Str("host1")

\* C17: a run with --existing never calls create_vault, whether the vault is
\* found or not and whether --yes is given or not.
C17_ExistingNeverCreates ==
    kv_args.existing => \A i \in DOMAIN kv_log : kv_log[i] # "create_vault"

\* C18: an operation called without res_id but with sub_id, res_grp and
\* ws_name addresses, in every request it sends, the workspace ws_name in
\* resource group res_grp of subscription sub_id.
C18_UrlNamesWorkspace ==
    (azs_call.op # "none" /\ azs_call.res_id = <<>> /\ azs_call.sub_id # ""
     /\ azs_call.res_grp # "" /\ azs_call.ws_name # "")
    => \A i \in DOMAIN azs_requests :
          LET url == azs_requests[i].url
          IN /\ url[3] = azs_call.sub_id
             /\ url[5] = azs_call.res_grp
             /\ url[8] = "workspaces" /\ url[9] = azs_call.ws_name

\* the scalar (simple) arguments the caller gave, time parameters aside
ScalarGiven == (DOMAIN Supplied \ _DEF_IGNORE_PARAM) \ IterGiven

\* C19: in scalar/list mode, when every iterable argument is list-capable, the
\* underlying function is called exactly once, with each iterable as a list
\* and every scalar argument unchanged, whatever the number of scalars.
C19_ListCapableCalledOnce ==
    (/\ pc = "done" /\ mode # "none" /\ ~inp.data.present
     /\ IterGiven \subseteq DOMAIN func_params
     /\ \A k \in IterGiven : func_params[k] = "list")
    => /\ Len(calls) = 1
       /\ \A k \in IterGiven :
            k \in DOMAIN calls[1] /\ calls[1][k] = List(Supplied[k].v)
       /\ \A k \in ScalarGiven :
            k \in DOMAIN calls[1] /\ calls[1][k] = Supplied[k]

\* C20: a tabular call with a truthy join and right_on but no left_on ends
\* without an exception of the wrapper: the source table is merged on the
\* inferred left_on, or a warning is issued and the index join is used.
C20_RightOnOnlyJoins ==
    (/\ pc = "done" /\ inp.data.present /\ JoinRequested
     /\ "right_on" \in DOMAIN inp.kw /\ Truthy(inp.kw["right_on"])
     /\ "left_on" \notin DOMAIN inp.kw)
    => /\ exc \in {"none", "QueryError"}
       /\ exc = "none" => (join.left_on # NoneVal \/ warns # {})

\* a tabular call with a truthy join and left_on but no right_on has ended
LeftOnOnly ==
    /\ pc = "done" /\ inp.data.present /\ JoinRequested
    /\ "left_on" \in DOMAIN inp.kw /\ Truthy(inp.kw["left_on"])
    /\ "right_on" \notin DOMAIN inp.kw

\* C21 as stated: such a call does not fail (a failure of the underlying query
\* aside).
C21_LeftOnOnlyNeverFails ==
    LeftOnOnly => exc \in {"none", "QueryError"}

\* C21 amended: the missing right_on raises nothing: the warning is issued and
\* the query is executed; the call fails only when the underlying query does,
\* or when per-row execution has no row to run on; a table that is returned
\* is the index join (source index = src_row_index) when the result carries
\* src_row_index, never the join on left_on, and else the plain result with a
\* second warning.
C21_LeftOnOnlyIndexJoin ==
    LeftOnOnly
    => /\ mode \in {"single", "rows"}
       /\ "no_right_on" \in warns
       /\ exc \in {"none", "QueryError", "ValueError"}
       /\ exc = "ValueError" => (mode = "rows" /\ inp.data.rows = <<>> /\ calls = <<>>)
       /\ (exc = "none" /\ mode = "rows")
          => /\ result = DropRowIndex(MergeOn(inp.data, Concat(row_results),
                                              inp.kw["join"].v[1],
                                              IndexMatch(inp.data, Concat(row_results))))
             /\ \A i \in DOMAIN result.rows :
                  result.rows[i].call > 0
                  => inp.data.index[result.rows[i].src] = inp.data.index[result.rows[i].call]
       /\ (exc = "none" /\ mode = "single")
          => /\ result = DropRowIndex(row_results[1])
             /\ "no_index_merge" \in warns

\* C21 witness: a join with left_on only, executed per row on a table with
\* distinct index labels, returned the rows paired by index
C21_Witness ==
    /\ LeftOnOnly /\ exc = "none" /\ mode = "rows"
    /\ UniqueIndex
    /\ Len(inp.data.rows) = MaxRows
    /\ "no_right_on" \in warns
    /\ Len(result.rows) = MaxRows
    /\ \A i \in DOMAIN result.rows : result.rows[i].src = i /\ result.rows[i].call = i

\* left_on and right_on were both given, with truthy values
BothKeys ==
    /\ "left_on" \in DOMAIN inp.kw /\ Truthy(inp.kw["left_on"])
    /\ "right_on" \in DOMAIN inp.kw /\ Truthy(inp.kw["right_on"])

\* C22: in tabular mode a returned table never has the column src_row_index;
\* and when a join is requested without both keys and execution is bulk (so
\* the result has no src_row_index), the call returns the plain query result
\* with a warning.
C22_NoRowIndexReturned ==
    /\ (pc = "done" /\ inp.data.present /\ exc = "none")
       => "src_row_index" \notin result.cols
    /\ (/\ pc = "done" /\ inp.data.present /\ JoinRequested /\ ~BothKeys
        /\ \A k \in ColParams : func_params[k] = "list")
       => /\ exc \in {"none", "QueryError"}
          /\ exc = "none"
             => /\ "no_index_merge" \in warns
                /\ result = DropRowIndex(row_results[1])

\* the query sources of the provider the current registry was built from
Sources == current.provider.queries

\* the names the construction of the current registry ignored
Ignored == IgnoreParams(current.ignore_reqd)

\* the places, in iteration order, of the sources that declare parameter p
Declaring(p) == {i \in DOMAIN Sources : p \in DeclaredNames(Sources[i])}

\* the place in iteration order of the source a record was made for
PlaceOf(rec) ==
    CHOOSE i \in DOMAIN Sources :
        Sources[i].family = rec.family /\ Sources[i].name = rec.query

\* C23: after a construction that succeeded, query_params has exactly one
\* entry per (family, query), keyed by the pair, with all = the declared names, full_required = the required names and
\* required = full_required minus the ignored set; param_usage[p] has exactly
\* one record per (family, query) that declares p, in iteration order, each
\* equal to query_params[family.query].param_attrs[p], with required = (p is
\* required and not ignored); names no query declares have no entry.
C23_ExactIndexing ==
    (current.built /\ current.exc = "none")
    => /\ DOMAIN current.query_params
            = {QueryKey(Sources[i].family, Sources[i].name) : i \in DOMAIN Sources}
       /\ Cardinality(DOMAIN current.query_params) = Len(Sources)
       /\ \A i \in DOMAIN Sources :
            LET q == Sources[i]
                qp == current.query_params[QueryKey(q.family, q.name)]
            IN /\ Len(qp.all) = Len(q.params)
               /\ \A j \in DOMAIN q.params : qp.all[j] = q.params[j].name
               /\ qp.full_required = q.required
               /\ qp.required = SeqToSet(q.required) \ Ignored
               /\ DOMAIN qp.param_attrs = SeqToSet(qp.all)
       /\ DOMAIN current.param_usage
            = UNION {DeclaredNames(Sources[i]) : i \in DOMAIN Sources}
       /\ \A p \in DOMAIN current.param_usage :
            LET recs == current.param_usage[p]
            IN /\ Len(recs) = Cardinality(Declaring(p))
               /\ {PlaceOf(recs[n]) : n \in DOMAIN recs} = Declaring(p)
               /\ \A m, n \in DOMAIN recs : m < n => PlaceOf(recs[m]) < PlaceOf(recs[n])
               /\ \A n \in DOMAIN recs :
                    LET q == Sources[PlaceOf(recs[n])]
                    IN /\ recs[n] = current.query_params[QueryKey(q.family, q.name)]
                                        .param_attrs[p]
                       /\ recs[n].query = q.name /\ recs[n].family = q.family
                       /\ recs[n].type = PAttrs(q, p).type
                       /\ recs[n].required
                            = (p \in SeqToSet(q.required) /\ p \notin Ignored)

\* C23 witness: a registry of four queries built with ignore_reqd = ["end",
\* "host_name"]: host_name has three records in iteration order, none
\* required, and start is required where the query requires it
C23_Witness ==
    /\ current.built
    /\ current.provider = Provider("LocalData", <<1, 2, 4, 6>>)
    /\ current.ignore_reqd = List(<<"end", "host_name">>)
    /\ Cardinality(DOMAIN current.query_params) = 4
    /\ Len(current.param_usage["host_name"]) = 3
    /\ current.param_usage["host_name"][1].query = "list_logons"
    /\ current.param_usage["host_name"][3].query = "get_host"
    /\ \A n \in 1..3 : ~current.param_usage["host_name"][n].required
    /\ current.param_usage["start"][1].required
    /\ current.query_params[QueryKey("WindowsSecurity", "list_logons")].required = {"start"}

\* the names entity class cls has a function of query k attached under
NamesOf(cls, k) ==
    UNION {{n \in DOMAIN entity_classes.classes[cls][c].funcs :
              entity_classes.classes[cls][c].funcs[n].query = k} :
           c \in DOMAIN entity_classes.classes[cls]}

\* the query source has a table parameter that declares a default
HasTableDefault(q) ==
    \E i \in DOMAIN q.params : q.params[i].name = "table" /\ q.params[i].default # "None"

\* C24: a wrapped function is attached as "<default table>_<query name>" when
\* the query declares a default table name, and as the query name in every
\* other case: no table parameter, or a table parameter without a default.
C24_AttachedName ==
    \A cls \in EntityClasses : \A k \in AttachedQueries(cls) :
        LET q == QuerySources[SourceOf(k)]
        IN \A n \in NamesOf(cls, k) :
              n = IF HasTableDefault(q)
                  THEN Segments(PAttrs(q, "table").default) \o Segments(q.name)
                  ELSE Segments(q.name)

\* the (entity class, query) combinations of the first binding run, in order
FirstWork == BindWork(bound_first.reg, 1)

\* the name made of the table default and the query name of combination w,
\* whatever its data family
PlainName(w) ==
    LET q == QuerySources[SourceOf(QueryKey(w.family, w.name))]
    IN IF "table" \in DeclaredNames(q)
       THEN Segments(PAttrs(q, "table").default) \o Segments(w.name)
       ELSE Segments(w.name)

\* the combinations of the first run that attach to cls under name n: those of
\* the queries the registry has a summary of, with at least one parameter
Hits(cls, n) ==
    {i \in DOMAIN FirstWork :
        /\ FirstWork[i].cls = cls
        /\ QueryKey(FirstWork[i].family, FirstWork[i].name)
              \in DOMAIN bound_first.reg.query_params
        /\ DeclaredNames(QuerySources[SourceOf(QueryKey(FirstWork[i].family,
                                                        FirstWork[i].name))]) # {}
        /\ PlainName(FirstWork[i]) = n}

Max(S) == CHOOSE m \in S : \A x \in S : x <= m

\* C25: the attached name is made of the table default and the query name
\* only; of the queries that get the same name on the same entity class,
\* whatever their data families, the one attached last is the one found
\* under the name, and the binding raises nothing.
C25_LastBoundWins ==
    entity_classes.run = 1
    => \A cls \in EntityClasses :
         /\ \A i \in DOMAIN FirstWork :
              (FirstWork[i].cls = cls /\ Hits(cls, PlainName(FirstWork[i])) # {})
              => /\ bound_first.container \in DOMAIN entity_classes.classes[cls]
                 /\ PlainName(FirstWork[i])
                      \in DOMAIN entity_classes.classes[cls][bound_first.container].funcs
         /\ \A c \in DOMAIN entity_classes.classes[cls] :
              \A n \in DOMAIN entity_classes.classes[cls][c].funcs :
                 /\ Hits(cls, n) # {}
                 /\ entity_classes.classes[cls][c].funcs[n].query
                      = FirstWork[Max(Hits(cls, n))].func

\* C25 witness: WindowsSecurity.list_logons and LinuxSyslog.list_logons, both
\* without table, were bound to Host: one name, and it gives the query of
\* LinuxSyslog; the query of WindowsSecurity is not attached to Host
C25_Witness ==
    /\ entity_classes.run = 1
    /\ bound_first.reg.provider = Provider("AzureSentinel", <<1, 3>>)
    /\ DOMAIN entity_classes.classes["Host"]["AzureSentinel"].funcs = {<<"list", "logons">>}
    /\ entity_classes.classes["Host"]["AzureSentinel"].funcs[<<"list", "logons">>].query
         = QueryKey("LinuxSyslog", "list_logons")
    /\ QueryKey("WindowsSecurity", "list_logons") \notin AttachedQueries("Host")
    /\ {i \in Hits("Host", <<"list", "logons">>) : FirstWork[i].family = "WindowsSecurity"} # {}

\* C26: in tabular mode no underlying call receives `join`; with a truthy
\* join none receives left_on or right_on; with join absent or falsy every
\* call receives the left_on and right_on the caller gave, unchanged.
C26_JoinKeysForwarding ==
    Tabular
    => \A i \in DOMAIN calls :
         /\ "join" \notin DOMAIN calls[i]
         /\ JoinRequested
            => ("left_on" \notin DOMAIN calls[i] /\ "right_on" \notin DOMAIN calls[i])
         /\ ~JoinRequested
            => \A k \in {"left_on", "right_on"} \cap DOMAIN inp.kw :
                  k \in DOMAIN calls[i] /\ calls[i][k] = inp.kw[k]

\* C26 witness: a tabular call with join="" and both keys has returned: its
\* calls had left_on and right_on but not join
C26_Witness ==
    /\ Tabular /\ pc = "done" /\ exc = "none"
    /\ "join" \in DOMAIN inp.kw /\ ~JoinRequested
    /\ "left_on" \in DOMAIN inp.kw /\ "right_on" \in DOMAIN inp.kw
    /\ calls # <<>>
    /\ \A i \in DOMAIN calls :
         /\ "join" \notin DOMAIN calls[i]
         /\ calls[i]["left_on"] = Str("hcol")
         /\ calls[i]["right_on"] = Str("rcol")

\* iteration is required and there is nothing to iterate: a zero-row table
\* with a column-bound parameter that is not list-capable, or an empty
\* iterable for a declared parameter that is not list-capable
NothingToIterate ==
    IF inp.data.present
    THEN inp.data.rows = <<>> /\ \E k \in ColParams : func_params[k] # "list"
    ELSE /\ IterGiven \subseteq DOMAIN func_params
         /\ \E k \in IterGiven : func_params[k] # "list" /\ Supplied[k].v = <<>>

\* C27: when iteration is required and there is nothing to iterate, the
\* underlying function is never called and the wrapped call ends in an error,
\* never with a table; once the loop is reached the error is the ValueError of
\* concatenating zero results.
C27_NothingToIterateFails ==
    (pc \in {"exec", "done"} /\ NothingToIterate)
    => /\ calls = <<>>
       /\ pc = "done" => (exc # "none" /\ result = NoResult)
       /\ mode \in {"rows", "values", "none"}
       /\ (pc = "done" /\ mode # "none") => exc = "ValueError"

\* C27 witness: a call with an empty list for a parameter that takes single
\* values has ended in the ValueError without an underlying call
C27_Witness ==
    /\ pc = "done" /\ ~inp.data.present /\ NothingToIterate
    /\ mode = "values" /\ exc = "ValueError" /\ calls = <<>>

\* an iterable was given for a name the function does not declare
UndeclaredIterable == \E k \in IterGiven : k \notin DOMAIN func_params

\* C28: in scalar/list mode every underlying call receives each scalar or
\* string argument unchanged, declared or not; a call with a non-string
\* iterable for an undeclared name ends in KeyError before any underlying call.
C28_UndeclaredArguments ==
    (pc \in {"exec", "done"} /\ ~inp.data.present)
    => /\ \A i \in DOMAIN calls : \A k \in ScalarGiven :
            k \in DOMAIN calls[i] /\ calls[i][k] = Supplied[k]
       /\ UndeclaredIterable
          => /\ pc = "done" /\ exc = "KeyError"
             /\ calls = <<>>
       /\ (~UndeclaredIterable /\ ScalarGiven # {} /\ pc = "done" /\ exc = "none")
          => calls # <<>>

\* C28 witness: a call with the undeclared string join="left" and the
\* undeclared list user=["u1"] has ended in KeyError without a call
C28_Witness ==
    /\ pc = "done" /\ ~inp.data.present
    /\ "join" \in DOMAIN inp.kw /\ "join" \notin DOMAIN func_params
    /\ "user" \in DOMAIN inp.kw /\ UndeclaredIterable
    /\ exc = "KeyError" /\ calls = <<>>

\* C29: once a constructor call has been made, PivotQueryFunctions.current is
\* the instance of the call started last, whether that call succeeded or not;
\* after a call that failed on a parameter without a type it is the partly
\* built registry, which lacks the summary of the query that failed.
C29_CurrentIsLatestStarted ==
    last_init.started
    => /\ current.built
       /\ current.provider = last_init.provider
       /\ current.ignore_reqd = last_init.ignore_reqd
       /\ current.exc = last_init.exc
       /\ last_init.exc # "none"
          => \E i \in DOMAIN last_init.provider.queries :
                LET q == last_init.provider.queries[i]
                IN /\ BadParams(q) # {}
                   /\ QueryKey(q.family, q.name) \notin DOMAIN current.query_params

\* C29 witness: the construction for the provider whose second query has a
\* parameter without a type failed: current holds the summary of the first
\* query only, the records made before the failure, and the empty entry of
\* the parameter that failed
C29_Witness ==
    /\ last_init.started /\ last_init.exc = "KeyError"
    /\ current.provider = Provider("LocalData", <<1, 7, 3>>)
    /\ DOMAIN current.query_params = {QueryKey("WindowsSecurity", "list_logons")}
    /\ Len(current.param_usage["host_name"]) = 2
    /\ current.param_usage["host_name"][2].query = "bad_query"
    /\ current.param_usage["ip_address"] = <<>>

\* what the run has done so far
KvDone == SeqToSet(kv_log)

\* the run went through _add_secrets_to_vault and has ended
KvAfterVault == kv_pc = "exit" /\ "get_vault_uri" \in KvDone

\* C30 as stated: a run that went through _add_secrets_to_vault without
\* storing a secret has still written the settings file.
C30_AlwaysWritten ==
    (KvAfterVault /\ "set_secret" \notin KvDone) => "write_config" \in KvDone

\* C30 amended: _write_config_settings is called after _add_secrets_to_vault
\* has returned, whatever that did: the file is written last, after every
\* vault operation, with or without a secret stored, and it is left unwritten
\* only when the output file exists and the overwrite prompt is declined.
C30_WriteFollowsAddSecrets ==
    /\ kv_pc = "write_config" => "get_vault_uri" \in KvDone
    /\ \A i \in DOMAIN kv_log : kv_log[i] = "write_config" => i = Len(kv_log)
    /\ KvAfterVault
       => ("write_config" \notin KvDone => (kv_world.outfile /\ ~kv_args.yes))

\* C30 witness: the vault was not found and its creation declined: no
\* secret was stored, the vault does not exist, and the file was written
C30_Witness ==
    /\ KvAfterVault
    /\ ~kv_world.vault
    /\ "create_vault" \notin KvDone /\ "set_secret" \notin KvDone
    /\ kv_log[Len(kv_log)] = "write_config"

====
